---------------------------- MODULE Spec2Model ----------------------------
(***************************************************************************)
(* Model of pkg/cmd/cli/describe/projectstatus.go (openshift origin):      *)
(* ProjectStatusDescriber.MakeGraph (the concurrent loader fan-out, the    *)
(* forbidden / genuine classification, the commit of the staged items and  *)
(* the edge inference) and ProjectStatusDescriber.Describe (the five       *)
(* partition passes, the rendering of the groups, the marker pipeline and  *)
(* the summary line).                                                      *)
(***************************************************************************)
EXTENDS Integers, Sequences, FiniteSets, TLC

VARIABLES
    pc,                 \* position of the one Describe call
    world,              \* the cluster: objects, relations, pod profiles (input)
    namespace,          \* Describe's namespace argument ("" is NamespaceAll)
    Suggest,            \* d.Suggest
    answer,             \* loader -> what its lister answered (set when Load runs)
    loadState,          \* loader -> "pending" | "done" (the task of parallel.Run)
    items,              \* loader -> l.items, the staging buffer of the loader
    loadErr,            \* loader -> the error Load returned
    forbiddenResources, \* sets.String of MakeGraph
    actualErrors,       \* the genuine errors of MakeGraph
    added,              \* loaders whose AddToGraph has run
    edgeIdx,            \* number of AddAll...Edges calls that have run
    gNodes,             \* the graph's nodes, in insertion order (ID = position)
    gEdges,             \* the graph's edges: <<from, to, kind>>
    mgErr,              \* the error MakeGraph returned
    coveredNodes,       \* graphview.IntSet of Describe
    passLog,            \* per finished pass: what it was handed and what it returned
    groups,             \* shape -> the group views the pass of that shape returned
    scanned,            \* what the marker scanners emit, in scanner order (input)
    iterOrder,          \* the order in which the forbidden set was iterated
    allMarkers,         \* Describe's allMarkers after filter and both sorts
    out,                \* the lines written to the tabwriter
    ret,                \* what Describe returned: [report, err]
    routeLines,         \* the lines describeRouteInServiceGroup gave for a service (input)
    exposes,            \* Describe's exposes slice for that service
    spec,               \* the kapi.ServiceSpec handed to describeServicePorts (input)
    port,               \* what describeServicePorts returned
    buildArgs,          \* the arguments of describeAdditionalBuildDetail (input)
    buildOut,           \* what describeAdditionalBuildDetail returned
    deploy,             \* the pipeline handed to describeDeploymentInServiceGroup (input)
    deployOut           \* what describeDeploymentInServiceGroup returned

vars == <<pc, world, namespace, Suggest, answer, loadState, items, loadErr,
          forbiddenResources, actualErrors, added, edgeIdx, gNodes, gEdges,
          mgErr, coveredNodes, passLog, groups, scanned, iterOrder,
          allMarkers, out, ret, routeLines, exposes, spec, port,
          buildArgs, buildOut, deploy, deployOut>>

loadVars == <<answer, loadState, items, loadErr>>
graphVars == <<added, edgeIdx, gNodes, gEdges>>
classifyVars == <<forbiddenResources, actualErrors>>
detailVars == <<buildArgs, buildOut, deploy, deployOut>>
formatVars == <<routeLines, exposes, spec, port, detailVars>>
inputVars == <<world, namespace, Suggest, formatVars>>
describeVars == <<coveredNodes, passLog, groups, scanned, iterOrder, allMarkers, out>>

-----------------------------------------------------------------------------
(* Bounds of the model.                                                    *)

\* at most this many of the ten listers fail in one run of the fan-out taken
\* as one step
MaxFailures == 2

\* at most this many of the ten listers fail in one run of the fan-out taken
\* task by task
MaxTaskFailures == 1

\* at most this many relationships in the cluster of the partition
MaxEdges == 3

\* at most this many markers emitted by the scanners in one report
MaxMarkers == 2

\* the route lines of one service are at most
MaxRoutes == 3

\* the ports of a service are at most
MaxPorts == 2

-----------------------------------------------------------------------------
(* Generic helpers.                                                        *)

Range(s) == {s[i] : i \in 1..Len(s)}

RECURSIVE SeqOfSet(_)
\* some enumeration of a finite set (used only where the order is immaterial)
SeqOfSet(S) == IF S = {} THEN <<>>
               ELSE LET x == CHOOSE y \in S : TRUE IN <<x>> \o SeqOfSet(S \ {x})

\* all the orders in which a finite set can be enumerated
Orders(S) == {s \in [1..Cardinality(S) -> S] : Range(s) = S}

-----------------------------------------------------------------------------
(* The loaders of MakeGraph and the errors a lister can answer with.       *)

\* loaders := []GraphLoader{...}, in the order of the slice
loaders == <<"service", "serviceAccount", "secret", "rc", "pod",
             "bc", "build", "is", "dc", "route">>

Loaders == Range(loaders)

NumLoaders == Len(loaders)

\* the resource kind a loader lists, as the API names it in a status error
KindOf(l) == l

NoErr == [type |-> "nil", kind |-> ""]

\* the lister answered with a list
Ok == [type |-> "ok", kind |-> ""]

\* a StatusError with reason Forbidden; kind is Status().Details.Kind, and ""
\* stands for a status without details or with an empty kind
Forbidden(k) == [type |-> "Forbidden", kind |-> k]

NotFound(l) == [type |-> "NotFound", kind |-> KindOf(l)]

Other(l) == [type |-> "Other", kind |-> KindOf(l)]

\* what the lister of loader l can answer: a list, or one of the errors
Answers(l) == {Ok, Forbidden(KindOf(l)), Forbidden(""), NotFound(l), Other(l)}

\* kapierrors.IsForbidden
IsForbidden(e) == e.type = "Forbidden"

\* kapierrors.IsNotFound
IsNotFound(e) == e.type = "NotFound"

\* errors.TolerateNotFoundError: a not-found error becomes nil
TolerateNotFoundError(e) == IF IsNotFound(e) THEN NoErr ELSE e

TolerantLoaders_none == {}

\* the loaders whose Load wraps the lister's error in TolerateNotFoundError
TolerantLoaders == {"bc", "build"}

\* the error Load of loader l returns when its lister answers a
LoadError(l, a) ==
    IF a = Ok THEN NoErr
    ELSE IF l \in TolerantLoaders THEN TolerateNotFoundError(a)
    ELSE a

-----------------------------------------------------------------------------
(* The cluster.  A world is a record: objects (the objects in the order   *)
(* the listers return them), rel (the relationships the edge inference     *)
(* finds: <<from, to, step>>, step being the AddAll...Edges call that adds *)
(* the edge) and pod (the profile of every pod).                           *)

\* the kind of every object of the universe, named by the loader listing it
ObjKind ==
    [o \in {"svc1", "svc2", "sa1", "secret1", "rc1", "pod1", "pod2", "bc1",
            "build1", "is1", "dc1", "route1"} |->
        CASE o \in {"svc1", "svc2"} -> "service"
          [] o = "sa1" -> "serviceAccount"
          [] o = "secret1" -> "secret"
          [] o = "rc1" -> "rc"
          [] o \in {"pod1", "pod2"} -> "pod"
          [] o = "bc1" -> "bc"
          [] o = "build1" -> "build"
          [] o = "is1" -> "is"
          [] o = "dc1" -> "dc"
          [] o = "route1" -> "route"]

Objects == DOMAIN ObjKind

\* the image stream tag nodes EnsureAllImageStreamTagNodes adds for a stream
TagsOf(o) == IF o = "is1" THEN <<"is1:latest">> ELSE <<>>

\* the kind of a graph node
NodeKind(n) == IF n \in Objects THEN ObjKind[n] ELSE "istag"

\* the objects of the cluster that the lister of loader l lists, in its order
Listed(w, l) == SelectSeq(w.objects, LAMBDA o : ObjKind[o] = l)

\* l.items after Load of loader l: list.Items on success, untouched otherwise
LoadItems(w, l, a, old) == IF a = Ok THEN Listed(w, l) ELSE old

\* the nodes AddToGraph of loader l ensures for one item: the item's node
\* and, for isLoader, the nodes of the stream's tags
NodesOfItem(l, o) == IF l = "is" THEN <<o>> \o TagsOf(o) ELSE <<o>>

RECURSIVE EnsureAll(_, _)
\* the Ensure...Node pattern over a sequence of nodes: a node already in the
\* graph is found, not inserted again
EnsureAll(g, ns) ==
    IF ns = <<>> THEN g
    ELSE EnsureAll(IF Head(ns) \in Range(g) THEN g ELSE Append(g, Head(ns)), Tail(ns))

RECURSIVE ItemNodes(_, _)
ItemNodes(l, its) ==
    IF its = <<>> THEN <<>> ELSE NodesOfItem(l, Head(its)) \o ItemNodes(l, Tail(its))

\* the graph's nodes after AddToGraph of loader l
AddToGraphNodes(g, l, its) == EnsureAll(g, ItemNodes(l, its))

\* the AddAll...Edges calls of MakeGraph, in the order of the calls
edgeSteps == <<"ExposedPodTemplateSpec", "ExposedPod", "ManagedByRCPod",
               "RequestedServiceAccount", "MountableSecret", "MountedSecret",
               "InputOutput", "Build", "Trigger", "Deployment",
               "ImageStreamRef", "ImageStreamImageRef", "Route">>

NumEdgeSteps == Len(edgeSteps)

\* the edges one AddAll...Edges call adds: the relationships of its kind
\* between nodes that exist (it creates no node)
InferredEdges(w, g, step) ==
    {e \in w.rel : e[3] = step /\ e[1] \in Range(g) /\ e[2] \in Range(g)}

-----------------------------------------------------------------------------
(* MakeGraph: the fan-out.                                                 *)

Failed(ans) == {l \in DOMAIN ans : ans[l] # Ok /\ ans[l] # NoErr}

Load_sharedItems(l) ==
    /\ pc = "fanout"
    /\ loadState[l] = "pending"
    /\ \E a \in Answers(l) :
        /\ a = Ok \/ Cardinality(Failed(answer)) < MaxTaskFailures
        /\ answer' = [answer EXCEPT ![l] = a]
        /\ items' = [k \in Loaders |-> IF k = l THEN LoadItems(world, l, a, items[l]) ELSE <<>>]
        /\ loadErr' = [loadErr EXCEPT ![l] = LoadError(l, a)]
    /\ loadState' = [loadState EXCEPT ![l] = "done"]
    /\ UNCHANGED <<pc, inputVars, classifyVars, graphVars, mgErr, describeVars, ret>>

Load_cancelledByFailure(l) ==
    /\ pc = "fanout"
    /\ loadState[l] = "pending"
    /\ Failed(answer) = {}
    /\ \E a \in Answers(l) :
        /\ a = Ok \/ Cardinality(Failed(answer)) < MaxTaskFailures
        /\ answer' = [answer EXCEPT ![l] = a]
        /\ items' = [items EXCEPT ![l] = LoadItems(world, l, a, @)]
        /\ loadErr' = [loadErr EXCEPT ![l] = LoadError(l, a)]
    /\ loadState' = [loadState EXCEPT ![l] = "done"]
    /\ UNCHANGED <<pc, inputVars, classifyVars, graphVars, mgErr, describeVars, ret>>

\* one task of parallel.Run: Load of loader l, from the lister's call to the
\* return of the error
Load(l) ==
    /\ pc = "fanout"
    /\ loadState[l] = "pending"
    /\ \E a \in Answers(l) :
        /\ a = Ok \/ Cardinality(Failed(answer)) < MaxTaskFailures
        /\ answer' = [answer EXCEPT ![l] = a]
        /\ items' = [items EXCEPT ![l] = LoadItems(world, l, a, @)]
        /\ loadErr' = [loadErr EXCEPT ![l] = LoadError(l, a)]
    /\ loadState' = [loadState EXCEPT ![l] = "done"]
    /\ UNCHANGED <<pc, inputVars, classifyVars, graphVars, mgErr, describeVars, ret>>

\* parallel.Run as one step: the ten Load tasks, each run once, none left
\* pending when it returns
RunLoads ==
    /\ pc = "fanout"
    /\ \A l \in Loaders : loadState[l] = "pending"
    /\ \E F \in {S \in SUBSET Loaders : Cardinality(S) <= MaxFailures} :
       \E bad \in [F -> UNION {Answers(l) \ {Ok} : l \in Loaders}] :
        /\ \A l \in F : bad[l] \in Answers(l)
        /\ LET ans == [l \in Loaders |-> IF l \in F THEN bad[l] ELSE Ok] IN
            /\ answer' = ans
            /\ items' = [l \in Loaders |-> LoadItems(world, l, ans[l], items[l])]
            /\ loadErr' = [l \in Loaders |-> LoadError(l, ans[l])]
    /\ loadState' = [l \in Loaders |-> "done"]
    /\ UNCHANGED <<pc, inputVars, classifyVars, graphVars, mgErr, describeVars, ret>>

\* parallel.Run returns: every task has finished
AllTasksDone == \A l \in Loaders : loadState[l] = "done"

\* the errors parallel.Run returns: the non-nil ones, in the given order of
\* arrival
RunErrors(order) == [i \in DOMAIN order |-> loadErr[order[i]]]

ForbiddenKinds_unguarded(errs) ==
    {errs[i].kind : i \in {j \in DOMAIN errs : IsForbidden(errs[j])}}

\* if (Details != nil) && (len(Details.Kind) > 0) { forbiddenResources.Insert(Kind) }
ForbiddenKinds(errs) ==
    {errs[i].kind : i \in {j \in DOMAIN errs : IsForbidden(errs[j]) /\ errs[j].kind # ""}}

ActualErrors_all(errs) == errs

\* actualErrors: the errors the loop does not skip as forbidden
ActualErrors(errs) == SelectSeq(errs, LAMBDA e : ~IsForbidden(e))

\* utilerrors.NewAggregate
NewAggregate(errs) == [type |-> "Aggregate", errs |-> errs]

NilErr == [type |-> "nil", errs |-> <<>>]

\* MakeGraph from the return of parallel.Run to the early return or to the
\* start of the AddToGraph loop
Classify ==
    /\ pc = "fanout"
    /\ AllTasksDone
    /\ \E order \in Orders({l \in Loaders : loadErr[l] # NoErr}) :
        LET errs == RunErrors(order) IN
        /\ forbiddenResources' = ForbiddenKinds(errs)
        /\ actualErrors' = ActualErrors(errs)
        /\ IF Len(ActualErrors(errs)) > 0
           THEN /\ mgErr' = NewAggregate(ActualErrors(errs))
                /\ pc' = "mgReturned"
           ELSE /\ mgErr' = mgErr
                /\ pc' = "add"
    /\ UNCHANGED <<inputVars, loadVars, graphVars, describeVars, ret>>

\* one iteration of the loop over the loaders: loader.AddToGraph(g)
AddToGraph ==
    /\ pc = "add"
    /\ LET l == loaders[Cardinality(added) + 1] IN
        /\ gNodes' = AddToGraphNodes(gNodes, l, items[l])
        /\ added' = added \cup {l}
        /\ pc' = IF Cardinality(added) + 1 = NumLoaders THEN "edges" ELSE "add"
    /\ UNCHANGED <<inputVars, loadVars, classifyVars, edgeIdx, gEdges, mgErr,
                   describeVars, ret>>

EdgesMayRun_insideLoop == pc \in {"add", "edges"} /\ edgeIdx < NumEdgeSteps

\* the AddAll...Edges calls follow the loop over the loaders
EdgesMayRun == pc = "edges"

\* one of the AddAll...Edges calls; after the last, MakeGraph returns nil
AddEdges ==
    /\ EdgesMayRun
    /\ edgeIdx' = edgeIdx + 1
    /\ gEdges' = gEdges \cup InferredEdges(world, gNodes, edgeSteps[edgeIdx + 1])
    /\ pc' = IF edgeIdx + 1 = NumEdgeSteps THEN "mgReturned" ELSE pc
    /\ UNCHANGED <<inputVars, loadVars, classifyVars, added, gNodes, mgErr,
                   describeVars, ret>>

\* Describe: if err != nil { return "", err }
DescribeMakeGraphFailed ==
    /\ pc = "mgReturned"
    /\ mgErr # NilErr
    /\ ret' = [report |-> <<>>, err |-> mgErr]
    /\ pc' = "done"
    /\ UNCHANGED <<inputVars, loadVars, classifyVars, graphVars, mgErr, describeVars>>

-----------------------------------------------------------------------------
(* The graph views of package graphview, as Describe uses them.            *)

\* the nodes of one kind, in the order of their IDs
NodesByKind(g, k) == SelectSeq(g, LAMBDA n : NodeKind(n) = k)

\* the elements of sequence s that are in set S, in the order of s
Among(s, S) == SelectSeq(s, LAMBDA n : n \in S)

\* the nodes a group view bundles directly under node n
Below(g, E, n) ==
    CASE NodeKind(n) = "service" ->
            {e[1] : e \in {x \in E : x[2] = n /\
                x[3] \in {"ExposedPodTemplateSpec", "ExposedPod", "Route"}}}
      [] NodeKind(n) = "dc" ->
            {e[2] : e \in {x \in E : x[1] = n /\ x[3] = "Deployment"}}
                \cup {e[1] : e \in {x \in E : x[2] = n /\ x[3] = "Trigger"}}
      [] NodeKind(n) = "istag" ->
            {e[1] : e \in {x \in E : x[2] = n /\ x[3] = "InputOutput"}}
      [] NodeKind(n) = "rc" ->
            {e[1] : e \in {x \in E : x[2] = n /\ x[3] = "ManagedByRCPod"}}
      [] NodeKind(n) = "bc" ->
            {e[2] : e \in {x \in E : x[1] = n /\ x[3] = "Build"}}
      [] OTHER -> {}

RECURSIVE Closure(_, _, _)
\* S and everything bundled, transitively, under a node of S
Closure(g, E, S) ==
    LET T == S \cup UNION {Below(g, E, n) : n \in S}
    IN IF T = S THEN S ELSE Closure(g, E, T)

\* the nodes a group view with primary node n covers
Members(g, E, n) == Closure(g, E, {n})

\* the image pipelines of a deployment config: the build configs that feed
\* an image stream tag triggering it
ImagesOf(g, E, dc) ==
    Among(g, {b \in Range(g) : NodeKind(b) = "bc" /\
                 \E t \in Range(g) : <<t, dc, "Trigger">> \in E /\ <<b, t, "InputOutput">> \in E})

\* graphview.DeploymentConfigPipeline
DeploymentConfigPipeline(g, E, dc) ==
    [primary |-> dc,
     Deployments |-> Among(g, {r \in Range(g) : <<dc, r, "Deployment">> \in E}),
     Images |-> ImagesOf(g, E, dc),
     members |-> Members(g, E, dc)]

\* graphview.ServiceGroup
ServiceGroup(g, E, svc) ==
    LET fulfil(k, ek) == Among(g, {n \in Range(g) : NodeKind(n) = k /\ <<n, svc, ek>> \in E})
        dcs == fulfil("dc", "ExposedPodTemplateSpec")
    IN [primary |-> svc,
        FulfillingDCs |-> dcs,
        FulfillingRCs |-> fulfil("rc", "ExposedPodTemplateSpec"),
        FulfillingPods |-> fulfil("pod", "ExposedPod"),
        ExposingRoutes |-> fulfil("route", "Route"),
        DeploymentConfigPipelines |->
            [i \in DOMAIN dcs |-> DeploymentConfigPipeline(g, E, dcs[i])],
        members |-> Members(g, E, svc)]

\* the views of the three simple shapes: a replication controller with its
\* pods, an image pipeline of a build config, a pod
SimpleView(g, E, n) == [primary |-> n, members |-> Members(g, E, n)]

\* the five partition passes of Describe, in the order of the calls
passes == <<"service", "dc", "rc", "bc", "pod">>

NumPasses == Len(passes)

\* the view of shape k whose defining node is n
ViewOf(g, E, k, n) ==
    CASE k = "service" -> ServiceGroup(g, E, n)
      [] k = "dc" -> DeploymentConfigPipeline(g, E, n)
      [] OTHER -> SimpleView(g, E, n)

\* AllServiceGroups, AllDeploymentConfigPipelines, AllReplicationControllers,
\* AllImagePipelinesFromBuildConfig, AllPods: the views of every node of the
\* shape's kind that is not excluded
AllViews(g, E, k, excludeNodeIDs) ==
    LET prim == SelectSeq(NodesByKind(g, k), LAMBDA n : n \notin excludeNodeIDs)
    IN [i \in DOMAIN prim |-> ViewOf(g, E, k, prim[i])]

\* the covered set a pass returns with its views
CoveredBy(views) == UNION {views[i].members : i \in DOMAIN views}

CoveredAfter_dropped(covered, newly) == covered

CoveredAfter_replaced(covered, newly) == newly

\* coveredNodes.Insert(coveredBy....List()...)
CoveredAfter(covered, newly) == covered \cup newly

filterBoringPods_keepsFinished(w, pods) ==
    SelectSeq(pods, LAMBDA v : ~(w.pod[v.primary].deployer \/ w.pod[v.primary].builder))

\* filterBoringPods: the pods that are no deployer pod, no builder pod and
\* have not finished, in the order given
filterBoringPods(w, pods) ==
    SelectSeq(pods, LAMBDA v :
        LET isDeployerPod == w.pod[v.primary].deployer
            isBuilderPod == w.pod[v.primary].builder
            isFinished == w.pod[v.primary].phase \in {"Succeeded", "Failed"}
        IN ~(isDeployerPod \/ isBuilderPod \/ isFinished))

\* deployedges.BelongsToDeploymentConfig
BelongsToDeploymentConfig(w, dc, rc) == <<dc, rc, "Deployment">> \in w.rel

\* g.Edge(u, v) != nil
HasEdge(E, u, v) == \E e \in E : e[1] = u /\ e[2] = v

-----------------------------------------------------------------------------
(* Describe after MakeGraph: project lookup, partition passes, group lines *)

AllNamespaces == namespace = ""

ProjectErr == [type |-> "ProjectGet", errs |-> <<>>]

NoGroups == [service |-> <<>>, dc |-> <<>>, rc |-> <<>>, bc |-> <<>>, pod |-> <<>>]

\* Describe from the return of MakeGraph to the first pass: the project is
\* looked up unless the report spans all namespaces
DescribeProject ==
    /\ pc = "mgReturned"
    /\ mgErr = NilErr
    /\ \/ /\ pc' = "pass"
          /\ coveredNodes' = {}
          /\ ret' = ret
       \/ /\ ~AllNamespaces
          /\ pc' = "done"
          /\ ret' = [report |-> <<>>, err |-> ProjectErr]
          /\ coveredNodes' = coveredNodes
    /\ UNCHANGED <<inputVars, loadVars, classifyVars, graphVars, mgErr, passLog,
                   groups, scanned, iterOrder, allMarkers, out>>

\* one partition pass and the insertion of what it covered
Pass ==
    /\ pc = "pass"
    /\ LET k == passes[Len(passLog) + 1]
           views == AllViews(gNodes, gEdges, k, coveredNodes)
       IN /\ groups' = [groups EXCEPT ![k] = views]
          /\ coveredNodes' = CoveredAfter(coveredNodes, CoveredBy(views))
          /\ passLog' = Append(passLog, [shape |-> k, handed |-> coveredNodes,
                                         returned |-> CoveredBy(views)])
    /\ pc' = IF Len(passLog) + 1 = NumPasses THEN "groups" ELSE "pass"
    /\ UNCHANGED <<inputVars, loadVars, classifyVars, graphVars, mgErr,
                   scanned, iterOrder, allMarkers, out, ret>>

Line(t, n, p, k, j) == [t |-> t, n |-> n, p |-> p, k |-> k, j |-> j]

RECURSIVE Flatten(_)
Flatten(ss) == IF ss = <<>> THEN <<>> ELSE Head(ss) \o Flatten(Tail(ss))

ServiceLines_allPods(w, E, sg) ==
    LET rcs == SelectSeq(sg.FulfillingRCs, LAMBDA rc :
                   ~\E i \in DOMAIN sg.FulfillingDCs :
                        BelongsToDeploymentConfig(w, sg.FulfillingDCs[i], rc))
    IN <<Line("blank", "", "", 0, 0), Line("svc", sg.primary, "", 0, Len(sg.ExposingRoutes))>>
       \o [i \in DOMAIN sg.DeploymentConfigPipelines |->
              Line("dc", sg.DeploymentConfigPipelines[i].primary, sg.primary, 1, 0)]
       \o [i \in DOMAIN rcs |-> Line("rc", rcs[i], sg.primary, 1, 0)]
       \o [i \in DOMAIN sg.FulfillingPods |-> Line("pod", sg.FulfillingPods[i], sg.primary, 1, 0)]

ServiceLines_filtersBoring(w, E, sg) ==
    LET rcs == SelectSeq(sg.FulfillingRCs, LAMBDA rc :
                   ~\E i \in DOMAIN sg.FulfillingDCs :
                        BelongsToDeploymentConfig(w, sg.FulfillingDCs[i], rc))
        pods == SelectSeq(sg.FulfillingPods, LAMBDA pod :
                   /\ ~\E i \in DOMAIN sg.FulfillingRCs :
                        HasEdge(E, pod, sg.FulfillingRCs[i])
                   /\ ~w.pod[pod].deployer
                   /\ ~w.pod[pod].builder
                   /\ w.pod[pod].phase \notin {"Succeeded", "Failed"})
    IN <<Line("blank", "", "", 0, 0), Line("svc", sg.primary, "", 0, Len(sg.ExposingRoutes))>>
       \o [i \in DOMAIN sg.DeploymentConfigPipelines |->
              Line("dc", sg.DeploymentConfigPipelines[i].primary, sg.primary, 1, 0)]
       \o [i \in DOMAIN rcs |-> Line("rc", rcs[i], sg.primary, 1, 0)]
       \o [i \in DOMAIN pods |-> Line("pod", pods[i], sg.primary, 1, 0)]

\* the lines of one service group: the service, its deployment pipelines,
\* the controllers no covered deployment config owns, the pods no covered
\* controller has an edge to
ServiceLines(w, E, sg) ==
    LET rcs == SelectSeq(sg.FulfillingRCs, LAMBDA rc :
                   ~\E i \in DOMAIN sg.FulfillingDCs :
                        BelongsToDeploymentConfig(w, sg.FulfillingDCs[i], rc))
        pods == SelectSeq(sg.FulfillingPods, LAMBDA pod :
                   ~\E i \in DOMAIN sg.FulfillingRCs :
                        HasEdge(E, pod, sg.FulfillingRCs[i]))
    IN <<Line("blank", "", "", 0, 0), Line("svc", sg.primary, "", 0, Len(sg.ExposingRoutes))>>
       \o [i \in DOMAIN sg.DeploymentConfigPipelines |->
              Line("dc", sg.DeploymentConfigPipelines[i].primary, sg.primary, 1, 0)]
       \o [i \in DOMAIN rcs |-> Line("rc", rcs[i], sg.primary, 1, 0)]
       \o [i \in DOMAIN pods |-> Line("pod", pods[i], sg.primary, 1, 0)]

\* the lines of the standalone views of one shape
StandaloneLines(t, views) ==
    Flatten([i \in DOMAIN views |->
                <<Line("blank", "", "", 0, 0), Line(t, views[i].primary, "", 0, 0)>>])

GroupLines_inPassOrder(w, E, gr, allNs) ==
    <<Line("header", IF allNs THEN "all projects" ELSE "project", "", 0, 0)>>
    \o Flatten([i \in DOMAIN gr.service |-> ServiceLines(w, E, gr.service[i])])
    \o StandaloneLines("dc", gr.dc)
    \o StandaloneLines("rc", gr.rc)
    \o StandaloneLines("bc", gr.bc)
    \o StandaloneLines("pod", filterBoringPods(w, gr.pod))

\* the part of the report before the markers
GroupLines(w, E, gr, allNs) ==
    <<Line("header", IF allNs THEN "all projects" ELSE "project", "", 0, 0)>>
    \o Flatten([i \in DOMAIN gr.service |-> ServiceLines(w, E, gr.service[i])])
    \o StandaloneLines("dc", gr.dc)
    \o StandaloneLines("bc", gr.bc)
    \o StandaloneLines("rc", gr.rc)
    \o StandaloneLines("pod", filterBoringPods(w, gr.pod))

\* the tabbedString closure up to the monopods
RenderGroups ==
    /\ pc = "groups"
    /\ out' = GroupLines(world, gEdges, groups, AllNamespaces)
    /\ pc' = "markers"
    /\ UNCHANGED <<inputVars, loadVars, classifyVars, graphVars, mgErr,
                   coveredNodes, passLog, groups, scanned, iterOrder, allMarkers, ret>>

-----------------------------------------------------------------------------
(* Describe: the marker pipeline and the summary.  A marker is a record:   *)
(* scanner (the scanner that emitted it, "" for a forbidden advisory),     *)
(* Severity, Key, node (the ID of the related node, 0 for none), ns (the   *)
(* namespace of the related node), Suggestion (its number of lines, 0 for  *)
(* none), msg and kind (the message and its argument), id (which finding). *)

ForbiddenListWarning == "Forbidden"

createForbiddenMarkers_asErrors(ord) ==
    [i \in DOMAIN ord |->
        [scanner |-> "", Severity |-> "Error", Key |-> "Forbidden",
         node |-> 0, ns |-> "", Suggestion |-> 0,
         msg |-> "Unable to list resources", kind |-> ord[i], id |-> 0]]

\* createForbiddenMarkers, ranging over the set in the order ord
createForbiddenMarkers(ord) ==
    [i \in DOMAIN ord |->
        [scanner |-> "", Severity |-> "Warning", Key |-> ForbiddenListWarning,
         node |-> 0, ns |-> "", Suggestion |-> 0,
         msg |-> "Unable to list resources", kind |-> ord[i], id |-> 0]]

\* getMarkerScanners: the scanners in the order of the returned slice
getMarkerScanners ==
    <<"FindRestartingPods", "FindDuelingReplicationControllers",
      "FindMissingSecrets", "FindUnpushableBuildConfigs", "FindCircularBuilds",
      "FindPendingTags", "FindDeploymentConfigTriggerErrors",
      "FindMissingInputImageStreams", "FindDeploymentConfigReadinessWarnings",
      "FindPortMappingIssues", "FindMissingTLSTerminationType",
      "FindPathBasedPassthroughRoutes", "FindRouteAdmissionFailures",
      "FindMissingRouter">>

\* scanner(g, f): the findings of one scanner, in the order it emits them
ScannerMarkers(sc, name) == SelectSeq(sc, LAMBDA m : m.scanner = name)

\* allMarkers before the filter: the forbidden advisories, then the findings
\* of every scanner in turn
AllMarkers(ord, sc) ==
    createForbiddenMarkers(ord)
        \o Flatten([i \in DOMAIN getMarkerScanners |-> ScannerMarkers(sc, getMarkerScanners[i])])

\* Markers.FilterByNamespace: the markers whose related node is not of
\* another namespace than the report's
FilterByNamespace(ms, ns) ==
    SelectSeq(ms, LAMBDA m : ns = "" \/ m.node = 0 \/ m.ns = ns)

\* the order of the marker keys as strings
KeyRank(k) ==
    CASE k = "DuelingReplicationControllers" -> 1
      [] k = "Forbidden" -> 2
      [] k = "MissingSecret" -> 3

KeyRanks == 1..3

Reverse(q) == [i \in DOMAIN q |-> q[Len(q) + 1 - i]]

\* sort.Stable by an integer key: the markers of every key value in turn,
\* each in the order they had
StableByKey(ms) ==
    Flatten([v \in KeyRanks |-> SelectSeq(ms, LAMBDA m : KeyRank(m.Key) = v)])

\* sort.Stable by the ID of the related node, no node sorting first
StableByNodeID(ms) ==
    LET ids == {ms[i].node : i \in DOMAIN ms}
        top == IF ids = {} THEN 0 ELSE CHOOSE v \in ids : \A u \in ids : u <= v
    IN Flatten([v \in 1..(top + 1) |-> SelectSeq(ms, LAMBDA m : m.node = v - 1)])

\* Markers.BySeverity
BySeverity(ms, sev) == SelectSeq(ms, LAMBDA m : m.Severity = sev)

SortedMarkers_unfiltered(ord, sc, ns) ==
    StableByNodeID(StableByKey(AllMarkers(ord, sc)))

SortedMarkers_nodeThenKey(ord, sc, ns) ==
    StableByKey(StableByNodeID(FilterByNamespace(AllMarkers(ord, sc), ns)))

SortedMarkers_reversed(ord, sc, ns) ==
    Reverse(StableByNodeID(StableByKey(FilterByNamespace(AllMarkers(ord, sc), ns))))

\* allMarkers after FilterByNamespace, sort.Stable(ByKey) and
\* sort.Stable(ByNodeID)
SortedMarkers(ord, sc, ns) ==
    StableByNodeID(StableByKey(FilterByNamespace(AllMarkers(ord, sc), ns)))

\* the suggestion of a marker as printed in suggest mode: an indented block
\* when it has several lines, a "try:" line when it has one
SuggestionLines(m) ==
    IF m.Suggestion >= 2
    THEN <<Line("blank", "", "", 0, 0)>>
         \o [j \in 1..m.Suggestion |-> Line("block", m.msg, m.kind, m.id, j)]
    ELSE IF m.Suggestion = 1 THEN <<Line("try", m.msg, m.kind, m.id, 0)>>
    ELSE <<>>

MessageLine(m) == Line("msg", m.msg, m.kind, m.id, 0)

ErrorLines_alwaysSuggestions(errorMarkers, suggest) ==
    IF Len(errorMarkers) > 0
    THEN <<Line("Errors:", "", "", 0, 0)>>
         \o Flatten([i \in DOMAIN errorMarkers |->
                <<MessageLine(errorMarkers[i])>> \o SuggestionLines(errorMarkers[i])])
    ELSE <<>>

\* the "Errors:" section
ErrorLines(errorMarkers, suggest) ==
    IF Len(errorMarkers) > 0
    THEN <<Line("Errors:", "", "", 0, 0)>>
         \o Flatten([i \in DOMAIN errorMarkers |->
                <<MessageLine(errorMarkers[i])>>
                \o (IF errorMarkers[i].Suggestion > 0 /\ suggest
                    THEN SuggestionLines(errorMarkers[i]) ELSE <<>>)])
    ELSE <<>>

\* the "Warnings:" section, printed in suggest mode only
WarningLines(warningMarkers, suggest) ==
    IF Len(warningMarkers) > 0 /\ suggest
    THEN <<Line("Warnings:", "", "", 0, 0)>>
         \o Flatten([i \in DOMAIN warningMarkers |->
                <<MessageLine(warningMarkers[i])>> \o SuggestionLines(warningMarkers[i])])
    ELSE <<>>

\* "1 error" / "%d errors" / "": the count and the noun
Counted(n, one, many) == IF n = 1 THEN one ELSE IF n > 1 THEN many ELSE ""

SummaryLines_anyShape(nErr, nWarn, errorSuggestions, suggest, gr) ==
    LET errors == Counted(nErr, "error", "errors")
        warnings == Counted(nWarn, "warning", "warnings")
    IN IF ~suggest /\ nErr > 0 /\ nWarn > 0
       THEN <<Line("identified", errors, warnings, nErr, nWarn)>>
       ELSE IF ~suggest /\ nErr > 0 /\ errorSuggestions > 0
       THEN <<Line("identified", errors, "", nErr, 0)>>
       ELSE IF ~suggest /\ nWarn > 0
       THEN <<Line("identified", "", warnings, 0, nWarn)>>
       ELSE IF \A k \in DOMAIN gr : Len(gr[k]) = 0
       THEN <<Line("You have no services, deployment configs, or build configs.", "", "", 0, 0),
              Line("Run 'oc new-app' to create an application.", "", "", 0, 0)>>
       ELSE <<Line("View details", "", "", 0, 0)>>

SummaryLines_combinedLast(nErr, nWarn, errorSuggestions, suggest, gr) ==
    LET errors == Counted(nErr, "error", "errors")
        warnings == Counted(nWarn, "warning", "warnings")
    IN IF ~suggest /\ nErr > 0 /\ errorSuggestions > 0
       THEN <<Line("identified", errors, "", nErr, 0)>>
       ELSE IF ~suggest /\ nWarn > 0
       THEN <<Line("identified", "", warnings, 0, nWarn)>>
       ELSE IF ~suggest /\ nErr > 0 /\ nWarn > 0
       THEN <<Line("identified", errors, warnings, nErr, nWarn)>>
       ELSE IF Len(gr.service) = 0 /\ Len(gr.dc) = 0 /\ Len(gr.bc) = 0
       THEN <<Line("You have no services, deployment configs, or build configs.", "", "", 0, 0),
              Line("Run 'oc new-app' to create an application.", "", "", 0, 0)>>
       ELSE <<Line("View details", "", "", 0, 0)>>

SummaryLines_noSuggestionTest(nErr, nWarn, errorSuggestions, suggest, gr) ==
    LET errors == Counted(nErr, "error", "errors")
        warnings == Counted(nWarn, "warning", "warnings")
    IN CASE ~suggest /\ nErr > 0 /\ nWarn > 0 ->
              <<Line("identified", errors, warnings, nErr, nWarn)>>
         [] ~suggest /\ nErr > 0 ->
              <<Line("identified", errors, "", nErr, 0)>>
         [] ~suggest /\ nWarn > 0 ->
              <<Line("identified", "", warnings, 0, nWarn)>>
         [] Len(gr.service) = 0 /\ Len(gr.dc) = 0 /\ Len(gr.bc) = 0 ->
              <<Line("You have no services, deployment configs, or build configs.", "", "", 0, 0),
                Line("Run 'oc new-app' to create an application.", "", "", 0, 0)>>
         [] OTHER ->
              <<Line("View details", "", "", 0, 0)>>

\* the switch that ends the report: "<errors> and <warnings> identified",
\* "<errors> identified", "<warnings> identified" (each followed by "use
\* 'oc status -v' to see details."), the no-resources guidance, or the
\* generic guidance
SummaryLines(nErr, nWarn, errorSuggestions, suggest, gr) ==
    LET errors == Counted(nErr, "error", "errors")
        warnings == Counted(nWarn, "warning", "warnings")
    IN IF ~suggest /\ nErr > 0 /\ nWarn > 0
       THEN <<Line("identified", errors, warnings, nErr, nWarn)>>
       ELSE IF ~suggest /\ nErr > 0 /\ errorSuggestions > 0
       THEN <<Line("identified", errors, "", nErr, 0)>>
       ELSE IF ~suggest /\ nWarn > 0
       THEN <<Line("identified", "", warnings, 0, nWarn)>>
       ELSE IF Len(gr.service) = 0 /\ Len(gr.dc) = 0 /\ Len(gr.bc) = 0
       THEN <<Line("You have no services, deployment configs, or build configs.", "", "", 0, 0),
              Line("Run 'oc new-app' to create an application.", "", "", 0, 0)>>
       ELSE <<Line("View details", "", "", 0, 0)>>

\* the part of the report after the groups, from the sorted markers
MarkerLines(ms, suggest, gr) ==
    LET errorMarkers == BySeverity(ms, "Error")
        warningMarkers == BySeverity(ms, "Warning")
        errorSuggestions == Len(SelectSeq(errorMarkers, LAMBDA m : m.Suggestion > 0))
    IN <<Line("blank", "", "", 0, 0)>>
       \o ErrorLines(errorMarkers, suggest)
       \o WarningLines(warningMarkers, suggest)
       \o (IF Len(errorMarkers) # 0 \/ (suggest /\ Len(warningMarkers) # 0)
           THEN <<Line("blank", "", "", 0, 0)>> ELSE <<>>)
       \o SummaryLines(Len(errorMarkers), Len(warningMarkers), errorSuggestions, suggest, gr)

\* the findings a scanner can emit; a suggestion, when there is one, has one
\* line (missing secret) or two (dueling controllers)
Findings ==
    {[scanner |-> sk[1], Severity |-> sev, Key |-> sk[2], node |-> nd[1], ns |-> nd[2],
      Suggestion |-> IF sug THEN sk[3] ELSE 0, msg |-> sk[2], kind |-> "", id |-> 0] :
        sk \in {<<"FindDuelingReplicationControllers", "DuelingReplicationControllers", 2>>,
                <<"FindMissingSecrets", "MissingSecret", 1>>},
        sev \in {"Error", "Warning"},
        nd \in {<<0, "">>, <<1, "ns1">>, <<2, "ns2">>},
        sug \in BOOLEAN}

ScannerIndex(name) == CHOOSE i \in DOMAIN getMarkerScanners : getMarkerScanners[i] = name

\* what the scanners of one report can emit: up to MaxMarkers findings,
\* listed scanner by scanner, the i-th being finding number i
ScanOutputs ==
    {[i \in DOMAIN sc |-> [sc[i] EXCEPT !.id = i]] :
        sc \in {q \in UNION {[1..n -> Findings] : n \in 0..MaxMarkers} :
                  \A i \in DOMAIN q : \A j \in DOMAIN q :
                      i < j => ScannerIndex(q[i].scanner) <= ScannerIndex(q[j].scanner)}}

\* the tabbedString closure from the markers to the end, and the return
RenderMarkers ==
    /\ pc = "markers"
    /\ \E sc \in ScanOutputs : \E ord \in Orders(forbiddenResources) :
        /\ scanned' = sc
        /\ iterOrder' = ord
        /\ allMarkers' = SortedMarkers(ord, sc, namespace)
        /\ out' = out \o MarkerLines(SortedMarkers(ord, sc, namespace), Suggest, groups)
        /\ ret' = [report |-> out \o MarkerLines(SortedMarkers(ord, sc, namespace), Suggest, groups),
                   err |-> NilErr]
    /\ pc' = "done"
    /\ UNCHANGED <<inputVars, loadVars, classifyVars, graphVars, mgErr,
                   coveredNodes, passLog, groups>>

-----------------------------------------------------------------------------
(* The cluster of the fan-out specification.                               *)

LoadWorld ==
    [objects |-> <<"svc1", "svc2", "sa1", "secret1", "rc1", "pod1", "pod2",
                   "bc1", "build1", "is1", "dc1", "route1">>,
     rel |-> {<<"dc1", "svc1", "ExposedPodTemplateSpec">>,
              <<"pod1", "svc1", "ExposedPod">>,
              <<"pod1", "rc1", "ManagedByRCPod">>,
              <<"dc1", "rc1", "Deployment">>,
              <<"bc1", "build1", "Build">>,
              <<"route1", "svc1", "Route">>,
              <<"pod2", "secret1", "MountedSecret">>},
     pod |-> [p \in {"pod1", "pod2"} |->
                 [deployer |-> FALSE, builder |-> FALSE, phase |-> "Running"]]]

NoRet == [report |-> <<>>, err |-> NilErr]

\* no service is being formatted
NoSpec == [Type |-> "", ClusterIP |-> "", Ports |-> <<>>]

\* no build and no deployment is being described
NoBuildArgs ==
    [build |-> "", lastSuccessfulBuild |-> <<>>, lastUnsuccessfulBuild |-> <<>>,
     activeBuilds |-> <<>>, pushTargetResolved |-> FALSE, includeSuccess |-> FALSE]

NoDeploy ==
    [Deployment |-> [Name |-> "", Test |-> FALSE, LatestVersion |-> 0, Triggers |-> <<>>],
     ActiveDeployment |-> <<>>, InactiveDeployments |-> <<>>, Images |-> <<>>]

DetailIdle ==
    /\ buildArgs = NoBuildArgs
    /\ buildOut = <<>>
    /\ deploy = NoDeploy
    /\ deployOut = <<>>

FormatIdle ==
    /\ routeLines = <<>>
    /\ exposes = <<>>
    /\ spec = NoSpec
    /\ port = <<>>
    /\ DetailIdle

\* the state before MakeGraph's fan-out, the position aside
BeforeFanOut ==
    /\ world = LoadWorld
    /\ namespace = "ns1"
    /\ Suggest = FALSE
    /\ answer = [l \in Loaders |-> NoErr]
    /\ loadState = [l \in Loaders |-> "pending"]
    /\ items = [l \in Loaders |-> <<>>]
    /\ loadErr = [l \in Loaders |-> NoErr]
    /\ forbiddenResources = {}
    /\ actualErrors = <<>>
    /\ added = {}
    /\ edgeIdx = 0
    /\ gNodes = <<>>
    /\ gEdges = {}
    /\ mgErr = NilErr
    /\ coveredNodes = {}
    /\ passLog = <<>>
    /\ groups = NoGroups
    /\ scanned = <<>>
    /\ iterOrder = <<>>
    /\ allMarkers = <<>>
    /\ out = <<>>
    /\ ret = NoRet

InitLoad ==
    /\ pc = "fanout"
    /\ BeforeFanOut
    /\ FormatIdle

RECURSIVE NodesUpTo(_, _, _)
\* the graph's nodes after the AddToGraph of the first k loaders
NodesUpTo(w, its, k) ==
    IF k = 0 THEN <<>>
    ELSE AddToGraphNodes(NodesUpTo(w, its, k - 1), loaders[k], its[loaders[k]])

\* the graph's edges after the AddAll...Edges calls
AllInferredEdges(w, g) == UNION {InferredEdges(w, g, edgeSteps[i]) : i \in DOMAIN edgeSteps}

\* the state in which MakeGraph returns nil, the listers having answered ans
AfterMakeGraph(w, ans, ns, sg) ==
    LET its == [l \in Loaders |-> LoadItems(w, l, ans[l], <<>>)]
        errs == SelectSeq([i \in DOMAIN loaders |-> LoadError(loaders[i], ans[loaders[i]])],
                          LAMBDA e : e # NoErr)
    IN
    /\ pc = "mgReturned"
    /\ world = w
    /\ namespace = ns
    /\ Suggest = sg
    /\ answer = ans
    /\ loadState = [l \in Loaders |-> "done"]
    /\ items = its
    /\ loadErr = [l \in Loaders |-> LoadError(l, ans[l])]
    /\ forbiddenResources = ForbiddenKinds(errs)
    /\ actualErrors = ActualErrors(errs)
    /\ added = Loaders
    /\ edgeIdx = NumEdgeSteps
    /\ gNodes = NodesUpTo(w, its, NumLoaders)
    /\ gEdges = AllInferredEdges(w, NodesUpTo(w, its, NumLoaders))
    /\ mgErr = NilErr
    /\ coveredNodes = {}
    /\ passLog = <<>>
    /\ groups = NoGroups
    /\ scanned = <<>>
    /\ iterOrder = <<>>
    /\ allMarkers = <<>>
    /\ out = <<>>
    /\ ret = NoRet
    /\ FormatIdle

\* MakeGraph, run step by step, returns nil in the state AfterMakeGraph gives
MakeGraphReturnsAfterState ==
    (pc = "mgReturned" /\ mgErr = NilErr) =>
        /\ gNodes = NodesUpTo(world, items, NumLoaders)
        /\ gEdges = AllInferredEdges(world, gNodes)
        /\ added = Loaders /\ edgeIdx = NumEdgeSteps
        /\ actualErrors = <<>>

\* the relationships a cluster of the partition can have
CandidateEdges ==
    {<<"dc1", "svc1", "ExposedPodTemplateSpec">>, <<"rc1", "svc1", "ExposedPodTemplateSpec">>,
     <<"pod1", "svc1", "ExposedPod">>, <<"pod2", "svc1", "ExposedPod">>,
     <<"dc1", "svc2", "ExposedPodTemplateSpec">>, <<"rc1", "svc2", "ExposedPodTemplateSpec">>,
     <<"pod1", "svc2", "ExposedPod">>, <<"pod2", "svc2", "ExposedPod">>,
     <<"pod1", "rc1", "ManagedByRCPod">>, <<"pod2", "rc1", "ManagedByRCPod">>,
     <<"dc1", "rc1", "Deployment">>, <<"is1:latest", "dc1", "Trigger">>,
     <<"bc1", "is1:latest", "InputOutput">>, <<"bc1", "build1", "Build">>,
     <<"route1", "svc1", "Route">>}

\* the profiles a pod can have
PodProfiles ==
    {[deployer |-> FALSE, builder |-> FALSE, phase |-> "Running"],
     [deployer |-> TRUE, builder |-> FALSE, phase |-> "Running"],
     [deployer |-> FALSE, builder |-> TRUE, phase |-> "Running"],
     [deployer |-> FALSE, builder |-> FALSE, phase |-> "Succeeded"],
     [deployer |-> FALSE, builder |-> FALSE, phase |-> "Failed"]}

PartitionWorlds ==
    {[objects |-> LoadWorld.objects, rel |-> R, pod |-> pp] :
        R \in {S \in SUBSET CandidateEdges : Cardinality(S) <= MaxEdges},
        pp \in [{"pod1", "pod2"} -> PodProfiles]}

AllOk == [l \in Loaders |-> Ok]

InitPartition == \E w \in PartitionWorlds : AfterMakeGraph(w, AllOk, "ns1", FALSE)

NextPartition ==
    \/ DescribeProject
    \/ Pass
    \/ RenderGroups

SpecPartition == InitPartition /\ [][NextPartition]_vars

EmptyWorld == [objects |-> <<>>, rel |-> {}, pod |-> [p \in {} |-> 0]]

\* the answers of the listers in the reports of the marker specification:
\* the service and pod listers may be forbidden
MarkerAnswers ==
    {[AllOk EXCEPT !["service"] = a, !["pod"] = b] :
        a \in {Ok, Forbidden("service"), Forbidden("")},
        b \in {Ok, Forbidden("pod")}}

InitMarkers ==
    \E w \in {EmptyWorld, LoadWorld} : \E ans \in MarkerAnswers :
        \E ns \in {"ns1", ""} : \E sg \in BOOLEAN :
            AfterMakeGraph(w, ans, ns, sg)

NextDescribe ==
    \/ DescribeProject
    \/ Pass
    \/ RenderGroups
    \/ RenderMarkers

SpecMarkers == InitMarkers /\ [][NextDescribe]_vars

\* a cluster with a replication controller and pods only
BareWorld ==
    [objects |-> <<"rc1", "pod1", "pod2">>,
     rel |-> {<<"pod1", "rc1", "ManagedByRCPod">>},
     pod |-> [p \in {"pod1", "pod2"} |->
                 [deployer |-> FALSE, builder |-> FALSE, phase |-> "Running"]]]

\* the reports of the summary specification: every lister succeeds
InitSummary ==
    \E w \in {EmptyWorld, BareWorld, LoadWorld} :
        \E ns \in {"ns1", ""} : \E sg \in BOOLEAN :
            AfterMakeGraph(w, AllOk, ns, sg)

SpecSummary == InitSummary /\ [][NextDescribe]_vars

NextLoad ==
    \/ \E l \in Loaders : Load(l)
    \/ Classify
    \/ AddToGraph
    \/ AddEdges
    \/ DescribeMakeGraphFailed

SpecLoad == InitLoad /\ [][NextLoad]_vars

\* every lister call terminates, so a task that has started returns, and
\* the sequential code of MakeGraph after the barrier goes on: as long as a
\* step of MakeGraph is possible, one is taken
LoadFairness == WF_vars(NextLoad)

FairSpecLoad == SpecLoad /\ LoadFairness

NextOutcome ==
    \/ RunLoads
    \/ Classify
    \/ AddToGraph
    \/ AddEdges
    \/ DescribeMakeGraphFailed

SpecOutcome == InitLoad /\ [][NextOutcome]_vars

-----------------------------------------------------------------------------
(* The order of the exposed routes of a service.  A string is a sequence   *)
(* of characters; Go compares strings byte by byte.                        *)

\* the byte of a character
CharCode ==
    [c \in {" ", "/", ":", "a", "h", "p", "s", "t", "z"} |->
        CASE c = " " -> 32 [] c = "/" -> 47 [] c = ":" -> 58 [] c = "a" -> 97
          [] c = "h" -> 104 [] c = "p" -> 112 [] c = "s" -> 115 [] c = "t" -> 116
          [] c = "z" -> 122]

RECURSIVE StrLess(_, _)
\* a < b on strings
StrLess(a, b) ==
    IF b = <<>> THEN FALSE
    ELSE IF a = <<>> THEN TRUE
    ELSE IF Head(a) = Head(b) THEN StrLess(Tail(a), Tail(b))
    ELSE CharCode[Head(a)] < CharCode[Head(b)]

\* strings.HasPrefix
HasPrefix(s, prefix) == Len(s) >= Len(prefix) /\ SubSeq(s, 1, Len(prefix)) = prefix

\* strings.Index(s, c) for a one-character c
Index(s, c) ==
    IF \E i \in DOMAIN s : s[i] = c
    THEN (CHOOSE i \in DOMAIN s : s[i] = c /\ \A j \in 1..(i - 1) : s[j] # c) - 1
    ELSE -1

\* s[n:]
From(s, n) == SubSeq(s, n + 1, Len(s))

HTTPS == <<"h", "t", "t", "p", "s", ":", "/", "/">>

HTTP == <<"h", "t", "t", "p", ":", "/", "/">>

LessByLength_noTieBreak(a, b) ==
    LET lA == IF Index(a, " ") = -1 THEN Len(a) ELSE Index(a, " ")
        lB == IF Index(b, " ") = -1 THEN Len(b) ELSE Index(b, " ")
    IN lA < lB

\* the end of exposedRoutes.Less: by the distance to the first space, then
\* by a < b
LessByLength(a, b) ==
    LET lA == IF Index(a, " ") = -1 THEN Len(a) ELSE Index(a, " ")
        lB == IF Index(b, " ") = -1 THEN Len(b) ELSE Index(b, " ")
    IN IF lA < lB THEN TRUE
       ELSE IF lA > lB THEN FALSE
       ELSE StrLess(a, b)

\* exposedRoutes.Less on the strings a = e[i], b = e[j]
Less(a, b) ==
    LET prefixA == HasPrefix(a, HTTPS)
        prefixB == HasPrefix(b, HTTPS)
        httpA == HasPrefix(a, HTTP)
        httpB == HasPrefix(b, HTTP)
    IN IF prefixA /\ ~prefixB THEN TRUE
       ELSE IF ~prefixA /\ prefixB THEN FALSE
       ELSE IF ~prefixA /\ ~prefixB
       THEN IF httpA /\ ~httpB THEN TRUE
            ELSE IF ~httpA /\ httpB THEN FALSE
            ELSE IF ~httpA /\ ~httpB THEN StrLess(a, b)
            ELSE LessByLength(From(a, Len(HTTP)), From(b, Len(HTTP)))
       ELSE LessByLength(From(a, Len(HTTPS)), From(b, Len(HTTPS)))

\* a slice is in the order of Less
IsSorted(e) == \A i \in DOMAIN e : \A j \in DOMAIN e : i < j => ~Less(e[j], e[i])

\* the slices with the elements of slice e, each as often as in e
Rearrangements(e) ==
    {[i \in DOMAIN e |-> e[f[i]]] :
        f \in {g \in [DOMAIN e -> DOMAIN e] : \A i \in DOMAIN e : \E j \in DOMAIN e : g[j] = i}}

\* the strings after the scheme of the route lines of the model
RouteBodies ==
    {<<"a">>, <<"z">>, <<"a", "a">>, <<"a", " ", "z">>}

\* the route lines of the model: https, http and without a scheme
Routes == {prefix \o body : prefix \in {HTTPS, HTTP, <<>>}, body \in RouteBodies}

\* the lines the routes of one service can give
RouteSlices == UNION {[1..n -> Routes] : n \in 0..MaxRoutes}

\* sort.Sort(exposedRoutes(exposes)): exposes becomes a permutation of itself
\* in the order of Less
SortRoutes ==
    /\ pc = "sort"
    /\ \E e \in Rearrangements(exposes) :
        /\ IsSorted(e)
        /\ exposes' = e
    /\ pc' = "sorted"
    /\ UNCHANGED <<world, namespace, Suggest, routeLines, spec, port, detailVars,
                   loadVars, classifyVars, graphVars, mgErr, describeVars, ret>>

\* exposes as the loop over service.ExposingRoutes leaves it
InitRoutes ==
    /\ pc = "sort"
    /\ BeforeFanOut
    /\ \E e \in RouteSlices : routeLines = e /\ exposes = e
    /\ spec = NoSpec
    /\ port = <<>>
    /\ DetailIdle

NextRoutes == SortRoutes

SpecRoutes == InitRoutes /\ [][NextRoutes]_vars

-----------------------------------------------------------------------------
(* The port text of a service line.  Texts are sequences of characters.    *)

Digits == <<"0", "1", "2", "3", "4", "5", "6", "7", "8", "9">>

RECURSIVE Itoa(_)
\* strconv.Itoa of a natural number
Itoa(n) == IF n < 10 THEN <<Digits[n + 1]>>
           ELSE Itoa(n \div 10) \o <<Digits[(n % 10) + 1]>>

\* intstr.IntOrString values
FromInt(n) == [Type |-> "Int", IntVal |-> n, StrVal |-> <<>>]

FromString(s) == [Type |-> "String", IntVal |-> 0, StrVal |-> s]

\* IntOrString.String
String(v) == IF v.Type = "String" THEN v.StrVal ELSE Itoa(v.IntVal)

Initializing == <<"<", "i", "n", "i", "t", "i", "a", "l", "i", "z", "i", "n", "g", ">">>

portOrNodePort_ignoresNodePort(sp, p) == Itoa(p.Port)

\* portOrNodePort
portOrNodePort(sp, p) ==
    IF sp.Type # "NodePort" THEN Itoa(p.Port)
    ELSE IF p.NodePort = 0 THEN Initializing
    ELSE Itoa(p.NodePort)

\* the element of pairs for one port of a service with several ports
PortPair(sp, p) ==
    LET externalPort == portOrNodePort(sp, p) IN
    IF String(p.TargetPort) = <<"0">> \/ sp.ClusterIP = "None" THEN externalPort
    ELSE IF p.Port = p.TargetPort.IntVal THEN String(p.TargetPort)
    ELSE externalPort \o <<"-", ">">> \o String(p.TargetPort)

RECURSIVE Join(_, _)
\* strings.Join
Join(ss, sep) ==
    IF ss = <<>> THEN <<>>
    ELSE IF Len(ss) = 1 THEN ss[1]
    ELSE ss[1] \o sep \o Join(Tail(ss), sep)

\* describeServicePorts
describeServicePorts(sp) ==
    IF Len(sp.Ports) = 0
    THEN <<" ", "n", "o", " ", "p", "o", "r", "t", "s">>
    ELSE IF Len(sp.Ports) = 1
    THEN LET p == portOrNodePort(sp, sp.Ports[1]) IN
         IF \/ String(sp.Ports[1].TargetPort) = <<"0">>
            \/ sp.ClusterIP = "None"
            \/ p = String(sp.Ports[1].TargetPort)
         THEN <<":">> \o p
         ELSE <<":">> \o p \o <<" ", "-", ">", " ">> \o String(sp.Ports[1].TargetPort)
    ELSE <<" ", "p", "o", "r", "t", "s", " ">>
         \o Join([i \in DOMAIN sp.Ports |-> PortPair(sp, sp.Ports[i])], <<",", " ">>)

\* the ports a service of the model can have
ServicePorts ==
    {[Port |-> p, NodePort |-> n, TargetPort |-> t] :
        p \in {80, 8080}, n \in {0, 30080},
        t \in {FromInt(0), FromInt(80), FromInt(8080),
               FromString(<<"h", "t", "t", "p">>), FromString(<<"8", "0">>)}}

\* the service specs of the model
ServiceSpecs ==
    {[Type |-> ty, ClusterIP |-> ip, Ports |-> ps] :
        ty \in {"ClusterIP", "NodePort"},
        ip \in {"None", "172.30.0.1", ""},
        ps \in UNION {[1..n -> ServicePorts] : n \in 0..MaxPorts}}

\* describeServiceInServiceGroup: port := describeServicePorts(spec)
DescribeServicePorts ==
    /\ pc = "ports"
    /\ port' = describeServicePorts(spec)
    /\ pc' = "ported"
    /\ UNCHANGED <<world, namespace, Suggest, routeLines, exposes, spec, detailVars,
                   loadVars, classifyVars, graphVars, mgErr, describeVars, ret>>

InitPorts ==
    /\ pc = "ports"
    /\ BeforeFanOut
    /\ routeLines = <<>>
    /\ exposes = <<>>
    /\ spec \in ServiceSpecs
    /\ port = <<>>
    /\ DetailIdle

NextPorts == DescribeServicePorts

SpecPorts == InitPorts /\ [][NextPorts]_vars

-----------------------------------------------------------------------------
(* The build lines of a pipeline.  A build is a record: Name (stem, and    *)
(* the suffix after the last "-": numeric or not, and its number), Phase,  *)
(* To (Spec.Output.To is set), Revision (Spec.Revision is a git revision)  *)
(* and the three timestamps, 0 being the zero time.  A pointer is a        *)
(* sequence of length 0 (nil) or 1.  A line is the sequence of the         *)
(* non-empty strings its format puts together.                             *)

\* the timestamps of the builds are 0 (unset) .. MaxTime
MaxTime == 2

\* a pipeline has at most this many active builds
MaxActive == 2

\* fmt.Sprintf of string arguments: empty strings leave no trace
Sprintf(pieces) == SelectSeq(pieces, LAMBDA s : s # "")

\* buildTimestamp
buildTimestamp(b) ==
    IF b.CompletionTimestamp # 0 THEN b.CompletionTimestamp
    ELSE IF b.StartTimestamp # 0 THEN b.StartTimestamp
    ELSE b.CreationTimestamp

\* strings.ToLower(formatRelativeTime(t)): the text of the time elapsed
\* since t, one text for every timestamp
formatRelativeTime(t) == IF t < 10 THEN Digits[t + 1] ELSE "9"

\* describeSourceRevision
describeSourceRevision(b) == IF b.Revision THEN "1234567: message" ELSE ""

CantPush == " (can't push to image)"

imageStreamFailure_ignoresOutput(b, pushTargetResolved) ==
    IF ~pushTargetResolved THEN CantPush ELSE ""

\* if (build.Spec.Output.To != nil) && !pushTargetResolved
imageStreamFailure(b, pushTargetResolved) ==
    IF b.To /\ ~pushTargetResolved THEN CantPush ELSE ""

\* describeBuildPhase; t is the pointer argument
describeBuildPhase(b, t, parentName, pushTargetResolved) ==
    LET failure == imageStreamFailure(b, pushTargetResolved)
        ts == IF t = <<>> THEN buildTimestamp(b) ELSE t[1]
        time == IF ts = 0 THEN "<unknown>" ELSE formatRelativeTime(ts)
        buildIdentification ==
            IF b.Name.stem = parentName /\ b.Name.numeric
            THEN <<"build #">> \o Itoa(b.Name.number)
            ELSE <<"build/", b.Name.stem, "-", b.Name.suffix>>
        rev == describeSourceRevision(b)
        revision == IF rev # "" THEN <<" - ", rev>> ELSE <<>>
    IN CASE b.Phase = "Complete" ->
              Sprintf(buildIdentification \o <<" succeeded ", time, " ago">>
                      \o revision \o <<failure>>)
         [] b.Phase = "Error" ->
              Sprintf(buildIdentification \o <<" stopped with an error ", time, " ago">>
                      \o revision \o <<failure>>)
         [] b.Phase = "Failed" ->
              Sprintf(buildIdentification \o <<" failed ", time, " ago">>
                      \o revision \o <<failure>>)
         [] OTHER ->
              Sprintf(buildIdentification \o <<" ", b.Phase, " for ", time>>
                      \o revision \o <<failure>>)

\* what dereferencing a nil build pointer gives
Panic == <<"panic: nil pointer dereference">>

describeAdditionalBuildDetail_activeLast(a) ==
    IF a.build = "" THEN <<>>
    ELSE
    LET ls == a.lastSuccessfulBuild
        lu == a.lastUnsuccessfulBuild
        passTime == IF ls # <<>> THEN buildTimestamp(ls[1]) ELSE 0
        failTime == IF lu # <<>> THEN buildTimestamp(lu[1]) ELSE 0
        out1 == IF ls # <<>> /\ (a.includeSuccess \/ Len(a.activeBuilds) > 0)
                THEN <<describeBuildPhase(ls[1], <<passTime>>, a.build, a.pushTargetResolved)>>
                ELSE <<>>
        out2 == IF passTime < failTime
                THEN out1 \o <<IF lu = <<>> THEN Panic
                               ELSE describeBuildPhase(lu[1], <<failTime>>, a.build,
                                                       a.pushTargetResolved)>>
                ELSE out1
        activeOut == [i \in DOMAIN a.activeBuilds |->
                         describeBuildPhase(a.activeBuilds[i], <<>>, a.build,
                                            a.pushTargetResolved)]
        out3 == out2 \o activeOut
    IN IF Len(out3) = 0 /\ ls = <<>> THEN <<<<"not built yet">>>> ELSE out3

\* describeAdditionalBuildDetail
describeAdditionalBuildDetail(a) ==
    IF a.build = "" THEN <<>>
    ELSE
    LET ls == a.lastSuccessfulBuild
        lu == a.lastUnsuccessfulBuild
        passTime == IF ls # <<>> THEN buildTimestamp(ls[1]) ELSE 0
        failTime == IF lu # <<>> THEN buildTimestamp(lu[1]) ELSE 0
        lastTime == IF passTime > failTime THEN passTime ELSE failTime
        out1 == IF ls # <<>> /\ (a.includeSuccess \/ Len(a.activeBuilds) > 0)
                THEN <<describeBuildPhase(ls[1], <<passTime>>, a.build, a.pushTargetResolved)>>
                ELSE <<>>
        out2 == IF passTime < failTime
                THEN out1 \o <<IF lu = <<>> THEN Panic
                               ELSE describeBuildPhase(lu[1], <<failTime>>, a.build,
                                                       a.pushTargetResolved)>>
                ELSE out1
        activeOut == [i \in DOMAIN a.activeBuilds |->
                         describeBuildPhase(a.activeBuilds[i], <<>>, a.build,
                                            a.pushTargetResolved)]
        out3 == IF Len(a.activeBuilds) > 0
                THEN IF buildTimestamp(a.activeBuilds[1]) < lastTime
                     THEN out2 \o activeOut
                     ELSE activeOut \o out2
                ELSE out2
    IN IF Len(out3) = 0 /\ ls = <<>> THEN <<<<"not built yet">>>> ELSE out3

\* a build of the build config bc1 with number n
Build(n, phase, to, rev, completion, start, creation) ==
    [Name |-> [stem |-> "bc1", numeric |-> TRUE, number |-> n, suffix |-> ""],
     Phase |-> phase, To |-> to, Revision |-> rev,
     CompletionTimestamp |-> completion, StartTimestamp |-> start,
     CreationTimestamp |-> creation]

\* the last successful build of a pipeline, if any: build 1, complete
SuccessfulBuilds(to) ==
    {<<>>} \cup {<<Build(1, "Complete", to, TRUE, t, t, t)>> : t \in 0..MaxTime}

\* the last unsuccessful build, if any: build 2, failed, or stopped with an
\* error before it started
UnsuccessfulBuilds(to) ==
    {<<>>} \cup {<<Build(2, "Failed", to, FALSE, t, t, t)>> : t \in 0..MaxTime}
           \cup {<<[Build(2, "Error", to, FALSE, 0, 0, t)
                      EXCEPT !.Name = [stem |-> "other", numeric |-> FALSE,
                                       number |-> 0, suffix |-> "x"]]>> :
                    t \in 0..MaxTime}

\* the active builds: builds 3, 4, ..., running since some time
ActiveBuilds(to) ==
    UNION {{[i \in 1..n |-> Build(2 + i, "Running", to, FALSE, 0, ts[i], ts[i])] :
               ts \in [1..n -> 0..MaxTime]} : n \in 0..MaxActive}

\* the arguments describeAdditionalBuildDetail is called with
BuildArgs ==
    {[build |-> bc, lastSuccessfulBuild |-> ls, lastUnsuccessfulBuild |-> lu,
      activeBuilds |-> ab, pushTargetResolved |-> res, includeSuccess |-> inc] :
        bc \in {"bc1"}, ls \in SuccessfulBuilds(TRUE) \cup SuccessfulBuilds(FALSE),
        lu \in UnsuccessfulBuilds(TRUE) \cup UnsuccessfulBuilds(FALSE),
        ab \in ActiveBuilds(TRUE) \cup ActiveBuilds(FALSE),
        res \in BOOLEAN, inc \in BOOLEAN}
    \cup {[NoBuildArgs EXCEPT !.includeSuccess = TRUE]}

\* lines = append(lines, describeAdditionalBuildDetail(...)...)
DescribeAdditionalBuildDetail ==
    /\ pc = "builds"
    /\ buildOut' = describeAdditionalBuildDetail(buildArgs)
    /\ pc' = "built"
    /\ UNCHANGED <<world, namespace, Suggest, routeLines, exposes, spec, port,
                   buildArgs, deploy, deployOut,
                   loadVars, classifyVars, graphVars, mgErr, describeVars, ret>>

InitBuilds ==
    /\ pc = "builds"
    /\ BeforeFanOut
    /\ routeLines = <<>>
    /\ exposes = <<>>
    /\ spec = NoSpec
    /\ port = <<>>
    /\ buildArgs \in BuildArgs
    /\ buildOut = <<>>
    /\ deploy = NoDeploy
    /\ deployOut = <<>>

NextBuilds == DescribeAdditionalBuildDetail

SpecBuilds == InitBuilds /\ [][NextBuilds]_vars

-----------------------------------------------------------------------------
(* The lines of a deployment pipeline.  A deployment is a replication      *)
(* controller record: version and status (what deployutil reads from its   *)
(* annotations), reason, the replicas and the creation timestamp.          *)

\* a deployment config has at most this many inactive deployments
MaxInactive == 3

\* a deployment pipeline has at most this many images
MaxImages == 2

\* the count describeDeploymentInServiceGroup hands to describeDeployments
DeploymentsShown == 3

\* describePodSummary
describePodSummary(rc, includeEmpty) ==
    IF rc.actual = rc.requested
    THEN IF rc.actual = 0 THEN (IF includeEmpty THEN <<"0 pods">> ELSE <<>>)
         ELSE IF rc.actual > 1 THEN Itoa(rc.actual) \o <<" pods">>
         ELSE <<"1 pod">>
    ELSE Itoa(rc.actual) \o <<"/">> \o Itoa(rc.requested) \o <<" pods">>

\* describePodSummaryInline
describePodSummaryInline(rc, includeEmpty) ==
    LET s == describePodSummary(rc, includeEmpty)
        change == IF rc.requested < rc.actual THEN <<" reducing to ">> \o Itoa(rc.requested)
                  ELSE IF rc.requested > rc.actual THEN <<" growing to ">> \o Itoa(rc.requested)
                  ELSE <<>>
    IN IF s = <<>> THEN <<>> ELSE <<" - ">> \o s \o change

\* describeDeploymentStatus
describeDeploymentStatus(rc, first, test) ==
    LET timeAt == formatRelativeTime(rc.CreationTimestamp)
        version == Itoa(rc.version)
    IN CASE rc.status = "Failed" ->
              Sprintf(<<"deployment #">> \o version \o <<" failed ", timeAt, " ago",
                        IF rc.reason # "" THEN ": " ELSE "", rc.reason>>
                      \o describePodSummaryInline(rc, FALSE))
         [] rc.status = "Complete" ->
              IF test
              THEN Sprintf(<<"test deployment #">> \o version \o <<" deployed ", timeAt, " ago">>)
              ELSE Sprintf(<<"deployment #">> \o version \o <<" deployed ", timeAt, " ago">>
                           \o describePodSummaryInline(rc, first))
         [] rc.status = "Running" ->
              Sprintf(<<IF test THEN "test deployment #" ELSE "deployment #">> \o version
                      \o <<" running for ", timeAt>> \o describePodSummaryInline(rc, FALSE))
         [] OTHER ->
              Sprintf(<<"deployment #">> \o version \o <<" ", rc.status, " ", timeAt, " ago">>
                      \o describePodSummaryInline(rc, FALSE))

\* describeDeploymentConfigTriggers: <<on, auto>>
describeDeploymentConfigTriggers(dc) ==
    LET hasConfig == "ConfigChange" \in Range(dc.Triggers)
        hasImage == "ImageChange" \in Range(dc.Triggers)
    IN IF hasConfig /\ hasImage THEN <<"on image or update", TRUE>>
       ELSE IF hasConfig THEN <<"on update", TRUE>>
       ELSE IF hasImage THEN <<"on image", TRUE>>
       ELSE <<"for manual", FALSE>>

\* describeDeploymentConfigTrigger
describeDeploymentConfigTrigger(dc) == IF Len(dc.Triggers) = 0 THEN "(manual)" ELSE ""

\* describeDeployments with a count that is not -1
describeDeployments(dc, activeDeployment, inactiveDeployments, count) ==
    LET trig == describeDeploymentConfigTriggers(dc)
        head == IF activeDeployment # <<>> THEN <<>>
                ELSE IF dc.LatestVersion = 0
                THEN <<<<"deployment #1 waiting ", trig[1]>>>>
                ELSE IF trig[2]
                THEN <<<<"deployment #">> \o Itoa(dc.LatestVersion) \o <<" pending ", trig[1]>>>>
                ELSE <<>>
        deploymentsToPrint == activeDeployment \o inactiveDeployments
        printed == IF Len(deploymentsToPrint) > count THEN count ELSE Len(deploymentsToPrint)
    IN head \o [i \in 1..printed |->
                   describeDeploymentStatus(deploymentsToPrint[i], i = 1, dc.Test)]

\* indentLines
indentLines(indent, lines) == [i \in DOMAIN lines |-> <<indent>> \o lines[i]]

\* describeImageInPipeline of a pipeline with an image
describeImageInPipeline(image) ==
    IF image.detail.build # ""
    THEN <<image.Image, " <- ", "bc/", image.detail.build, " source build">>
    ELSE <<image.Image>>

\* the build detail and the deployments that follow the line of an image
ImageDetail(d, image) ==
    indentLines("  ", describeAdditionalBuildDetail(
                          [image.detail EXCEPT !.includeSuccess = (d.ActiveDeployment = <<>>)]))
    \o describeDeployments(d.Deployment, d.ActiveDeployment, d.InactiveDeployments,
                           DeploymentsShown)

describeDeploymentInServiceGroup_oncePerPipeline(d) ==
    <<Sprintf(<<"dc/", d.Deployment.Name,
                IF d.Deployment.Test THEN " test deploys " ELSE " deploys ",
                describeDeploymentConfigTrigger(d.Deployment)>>)>>
    \o Flatten([i \in DOMAIN d.Images |->
                   <<describeImageInPipeline(d.Images[i])>>
                   \o indentLines("  ", describeAdditionalBuildDetail(
                          [d.Images[i].detail EXCEPT
                              !.includeSuccess = (d.ActiveDeployment = <<>>)]))])
    \o describeDeployments(d.Deployment, d.ActiveDeployment, d.InactiveDeployments,
                           DeploymentsShown)

\* describeDeploymentInServiceGroup
describeDeploymentInServiceGroup(d) ==
    IF Len(d.Images) = 1
    THEN LET first == Sprintf(<<"dc/", d.Deployment.Name,
                                IF d.Deployment.Test THEN " test deploys " ELSE " deploys ">>
                              \o describeImageInPipeline(d.Images[1])
                              \o <<" ", describeDeploymentConfigTrigger(d.Deployment)>>)
             at == IF \E i \in DOMAIN first : first[i] = " <- "
                   THEN CHOOSE i \in DOMAIN first :
                            first[i] = " <- " /\ \A j \in 1..(i - 1) : first[j] # " <- "
                   ELSE 0
             lines == IF d.Images[1].wide /\ at # 0
                      THEN <<SubSeq(first, 1, at - 1) \o <<" <-">>,
                             SubSeq(first, at + 1, Len(first))>>
                      ELSE <<first>>
         IN lines \o ImageDetail(d, d.Images[1])
    ELSE <<Sprintf(<<"dc/", d.Deployment.Name,
                     IF d.Deployment.Test THEN " test deploys " ELSE " deploys ",
                     describeDeploymentConfigTrigger(d.Deployment)>>)>>
         \o Flatten([i \in DOMAIN d.Images |->
                        <<describeImageInPipeline(d.Images[i])>> \o ImageDetail(d, d.Images[i])])

\* a deployment of the deployment config: version v in the given status
Deployment(v, status, actual) ==
    [version |-> v, status |-> status, reason |-> IF status = "Failed" THEN "timeout" ELSE "",
     actual |-> actual, requested |-> actual, CreationTimestamp |-> v]

\* the deployment configs of the model: dc1 at no or at its fourth version
DeploymentConfigs ==
    {[Name |-> "dc1", Test |-> test, LatestVersion |-> v, Triggers |-> tr] :
        test \in BOOLEAN, v \in {0, MaxInactive + 1},
        tr \in {<<>>, <<"ImageChange">>}}

\* the latest deployment, if there is one
ActiveDeployments ==
    {<<>>} \cup {<<Deployment(MaxInactive + 1, s, 1)>> : s \in {"Running", "Complete"}}

\* the older deployments, the newest first
InactiveDeployments ==
    UNION {{[i \in 1..n |-> Deployment(MaxInactive + 1 - i, ss[i], 0)] :
               ss \in [1..n -> {"Complete", "Failed"}]} : n \in 0..MaxInactive}

\* the images of a pipeline: without a build, with a build that succeeded
\* once, and the latter with a first line of more than 120 characters
ImagePipelines ==
    {[Image |-> "is1:latest", wide |-> FALSE, detail |-> NoBuildArgs],
     [Image |-> "is1:latest", wide |-> FALSE,
      detail |-> [NoBuildArgs EXCEPT !.build = "bc1",
                     !.lastSuccessfulBuild = <<Build(1, "Complete", TRUE, FALSE, 1, 1, 1)>>]],
     [Image |-> "is1:latest", wide |-> TRUE,
      detail |-> [NoBuildArgs EXCEPT !.build = "bc1",
                     !.lastSuccessfulBuild = <<Build(1, "Complete", TRUE, FALSE, 1, 1, 1)>>]]}

\* the pipelines describeDeploymentInServiceGroup is called with: a config
\* that has never been deployed has no deployment
DeploymentConfigPipelines ==
    {p \in {[Deployment |-> dc, ActiveDeployment |-> ad, InactiveDeployments |-> ids,
             Images |-> ims] :
               dc \in DeploymentConfigs, ad \in ActiveDeployments,
               ids \in InactiveDeployments,
               ims \in UNION {[1..n -> ImagePipelines] : n \in 0..MaxImages}} :
        p.Deployment.LatestVersion = 0 =>
            (p.ActiveDeployment = <<>> /\ p.InactiveDeployments = <<>>)}

\* printLines(out, indent, 1, describeDeploymentInServiceGroup(local, dcPipeline)...)
DescribeDeploymentInServiceGroup ==
    /\ pc = "deploy"
    /\ deployOut' = describeDeploymentInServiceGroup(deploy)
    /\ pc' = "deployed"
    /\ UNCHANGED <<world, namespace, Suggest, routeLines, exposes, spec, port,
                   buildArgs, buildOut, deploy,
                   loadVars, classifyVars, graphVars, mgErr, describeVars, ret>>

InitDeploy ==
    /\ pc = "deploy"
    /\ BeforeFanOut
    /\ routeLines = <<>>
    /\ exposes = <<>>
    /\ spec = NoSpec
    /\ port = <<>>
    /\ buildArgs = NoBuildArgs
    /\ buildOut = <<>>
    /\ deploy \in DeploymentConfigPipelines
    /\ deployOut = <<>>

NextDeploy == DescribeDeploymentInServiceGroup

SpecDeploy == InitDeploy /\ [][NextDeploy]_vars

-----------------------------------------------------------------------------
(* Claims about MakeGraph.                                                 *)

\* the loaders whose lister failed with a genuine error: not forbidden, and
\* not a not-found of one of the two build-related loaders
GenuineFailures ==
    {l \in Loaders :
        \/ answer[l].type = "Other"
        \/ answer[l].type = "NotFound" /\ l \notin {"bc", "build"}}

\* the loaders whose lister failed with access forbidden
ForbiddenFailures == {l \in Loaders : answer[l].type = "Forbidden"}

\* the nodes of a graph built from the items of the loaders that succeeded
NodesOfSuccessful ==
    {o \in Range(world.objects) : answer[ObjKind[o]] = Ok}
        \cup (IF answer["is"] = Ok /\ "is1" \in Range(world.objects)
              THEN {"is1:latest"} ELSE {})

\* C1: when at least one loader fails genuinely, MakeGraph returns the
\* aggregate of exactly the genuine failures, no node and no edge is ever
\* committed, and Describe returns that error with an empty report.
C1_GenuineFailureAborts ==
    (AllTasksDone /\ GenuineFailures # {}) =>
        /\ gNodes = <<>> /\ gEdges = {} /\ added = {} /\ edgeIdx = 0
        /\ pc \in {"fanout", "mgReturned", "done"}
        /\ pc # "fanout" =>
            /\ mgErr.type = "Aggregate"
            /\ Len(mgErr.errs) = Cardinality(GenuineFailures)
            /\ Range(mgErr.errs) = {answer[l] : l \in GenuineFailures}
            /\ \A i \in DOMAIN mgErr.errs : mgErr.errs[i].type # "Forbidden"
        /\ pc = "done" => ret = [report |-> <<>>, err |-> mgErr]

\* C1 witness: Describe has returned after a run with a genuine and a
\* forbidden failure.
C1_Witness ==
    /\ pc = "done"
    /\ GenuineFailures # {}
    /\ ForbiddenFailures # {}
    /\ ret.err.type = "Aggregate"

\* C2: no AddToGraph runs before all ten Load tasks have finished, and no
\* AddAll...Edges call runs before the AddToGraph of every loader has.
C2_LoadThenLink ==
    /\ (added # {} \/ gNodes # <<>>) => \A l \in Loaders : loadState[l] = "done"
    /\ (edgeIdx > 0 \/ gEdges # {}) => added = Loaders

\* C2 witness: the edge inference has run and has added an edge.
C2_Witness == edgeIdx = NumEdgeSteps /\ gEdges # {} /\ added = Loaders

\* C3 as stated: when only forbidden failures occur, MakeGraph returns nil,
\* the graph of the successful loaders, and a forbidden-kinds set holding
\* the kind of every forbidden failure and nothing else.
C3_Original ==
    (pc = "mgReturned" /\ GenuineFailures = {}) =>
        /\ mgErr = NilErr
        /\ Range(gNodes) = NodesOfSuccessful
        /\ forbiddenResources = {KindOf(l) : l \in ForbiddenFailures}

\* C3 amended: as C3, but the set holds the kind of exactly those forbidden
\* failures whose status names a non-empty kind; a forbidden failure
\* without one is dropped and leaves no entry.
C3_ForbiddenTolerated ==
    (pc = "mgReturned" /\ GenuineFailures = {}) =>
        /\ mgErr = NilErr
        /\ Range(gNodes) = NodesOfSuccessful
        /\ forbiddenResources =
               {answer[l].kind : l \in {f \in ForbiddenFailures : answer[f].kind # ""}}
        /\ forbiddenResources \subseteq {KindOf(l) : l \in ForbiddenFailures}

\* C3 witness: MakeGraph has returned a graph after two forbidden failures,
\* one naming its kind and one not.
C3_Witness ==
    /\ pc = "mgReturned"
    /\ mgErr = NilErr
    /\ gNodes # <<>>
    /\ Cardinality(ForbiddenFailures) = 2
    /\ Cardinality(forbiddenResources) = 1

\* C4: a not-found answer is tolerated by bcLoader and buildLoader (Load
\* returns nil and stages nothing, MakeGraph does not abort because of it)
\* and is a genuine failure for the other eight loaders (MakeGraph aborts
\* with it in the aggregated error).
C4_NotFoundTolerance ==
    \A l \in Loaders :
        (loadState[l] = "done" /\ answer[l].type = "NotFound") =>
            IF l \in {"bc", "build"}
            THEN /\ loadErr[l] = NoErr
                 /\ items[l] = <<>>
                 /\ \A i \in DOMAIN actualErrors : actualErrors[i] # answer[l]
                 /\ (pc = "mgReturned" /\ GenuineFailures = {}) => mgErr = NilErr
            ELSE /\ loadErr[l] = answer[l]
                 /\ pc \in {"fanout", "mgReturned", "done"}
                 /\ pc # "fanout" =>
                        /\ mgErr.type = "Aggregate"
                        /\ \E i \in DOMAIN mgErr.errs : mgErr.errs[i] = answer[l]

\* C4 witness: MakeGraph has returned after a not-found of bcLoader, which is
\* not in the error, and a not-found of rcLoader, which is.
C4_Witness ==
    /\ pc = "mgReturned"
    /\ answer["bc"].type = "NotFound"
    /\ answer["rc"].type = "NotFound"
    /\ mgErr = NewAggregate(<<answer["rc"]>>)


-----------------------------------------------------------------------------
(* Claims about the report of Describe.                                    *)

\* the report Describe has returned without an error
Reported == pc = "done" /\ ret.err = NilErr

\* the message line of the advisory for forbidden kind k
AdvisoryLine(k) == Line("msg", "Unable to list resources", k, 0, 0)

\* the markers of the report that are advisories for forbidden kind k
AdvisoriesOf(k) ==
    {i \in DOMAIN allMarkers :
        allMarkers[i].Key = ForbiddenListWarning /\ allMarkers[i].kind = k}

\* C5: when at least one loader fails with forbidden and none fails
\* genuinely, Describe returns an error only if the project lookup failed
\* (then with an empty report); otherwise it returns a report with exactly
\* one marker of key "Forbidden" per recorded forbidden kind, of Warning
\* severity, and the report text has the advisory message of a recorded kind
\* exactly when Suggest is on
C5_DegradedReport ==
    (pc = "done" /\ ForbiddenFailures # {} /\ GenuineFailures = {}) =>
        /\ ret.err # NilErr =>
              ret.err = ProjectErr /\ ~AllNamespaces /\ ret.report = <<>>
        /\ ret.err = NilErr =>
              /\ ret.report # <<>>
              /\ \A k \in forbiddenResources : Cardinality(AdvisoriesOf(k)) = 1
              /\ \A i \in DOMAIN allMarkers :
                    allMarkers[i].Key = ForbiddenListWarning =>
                        /\ allMarkers[i].Severity = "Warning"
                        /\ allMarkers[i].kind \in forbiddenResources
              /\ \A k \in forbiddenResources :
                    AdvisoryLine(k) \in Range(ret.report) <=> Suggest

\* C5 as stated: a report, no error, and the advisory message of every
\* forbidden kind in the text for either value of Suggest
C5_Original ==
    (pc = "done" /\ ForbiddenFailures # {} /\ GenuineFailures = {}) =>
        /\ ret.err = NilErr
        /\ ret.report # <<>>
        /\ \A k \in forbiddenResources :
              /\ Cardinality(AdvisoriesOf(k)) = 1
              /\ AdvisoryLine(k) \in Range(ret.report)

C5_Witness ==
    /\ Reported
    /\ Cardinality(forbiddenResources) = 2
    /\ ~Suggest
    /\ \A k \in forbiddenResources : AdvisoryLine(k) \notin Range(ret.report)

\* the five passes of Describe have run
PartitionDone == Len(passLog) = NumPasses

\* the views of the display groups: <<p, i>> is the i-th view of pass p
ViewIds == UNION {{<<p, i>> : i \in DOMAIN groups[passes[p]]} : p \in 1..NumPasses}

ViewAt(v) == groups[passes[v[1]]][v[2]]

\* the views that have node n among their members
ViewsWith(n) == {v \in ViewIds : n \in ViewAt(v).members}

\* the pods filterBoringPods drops
IsBoring(p) ==
    \/ world.pod[p].deployer
    \/ world.pod[p].builder
    \/ world.pod[p].phase \in {"Succeeded", "Failed"}

\* C6: after the five passes, no node is the defining node of two views, the
\* defining node of a view is a member of no view of an earlier pass, every
\* service, deployment config, replication controller, build config and pod
\* is a member of some view, the covered set is the union of the views'
\* members, and a standalone pod is listed exactly when filterBoringPods
\* keeps it
C6_Partition ==
    PartitionDone =>
        /\ \A v \in ViewIds : \A u \in ViewIds :
              v # u => ViewAt(v).primary # ViewAt(u).primary
        /\ \A v \in ViewIds : \A u \in ViewIds :
              u[1] < v[1] => ViewAt(v).primary \notin ViewAt(u).members
        /\ \A n \in Range(gNodes) :
              NodeKind(n) \in Range(passes) => ViewsWith(n) # {}
        /\ coveredNodes = UNION {ViewAt(v).members : v \in ViewIds}
        /\ pc = "markers" =>
              \A i \in DOMAIN groups.pod :
                  Line("pod", groups.pod[i].primary, "", 0, 0) \in Range(out)
                      <=> ~IsBoring(groups.pod[i].primary)

\* C6 as stated: every node of the graph is a member of exactly one view
C6_Original ==
    PartitionDone => \A n \in Range(gNodes) : Cardinality(ViewsWith(n)) = 1

C6_Witness ==
    /\ pc = "markers"
    /\ \E n \in Range(gNodes) : Cardinality(ViewsWith(n)) = 2
    /\ \E n \in Range(gNodes) : ViewsWith(n) = {}
    /\ \E i \in DOMAIN groups.pod : IsBoring(groups.pod[i].primary)
    /\ \E i \in DOMAIN groups.pod : ~IsBoring(groups.pod[i].primary)

\* the passes run so far ran in the order of the calls, each handed the
\* union of what the earlier ones returned
PassLogInOrder ==
    \A k \in DOMAIN passLog :
        /\ passLog[k].shape = passes[k]
        /\ passLog[k].handed = UNION {passLog[j].returned : j \in 1..(k - 1)}

\* C7: the passes run in the order service groups, deployment-config
\* pipelines, replication controllers, image pipelines, pods; the covered set
\* handed to a pass is the union of the sets the earlier passes returned; and
\* no step of Describe removes a node from the covered set
C7_PassOrder ==
    /\ [](Len(passLog) <= NumPasses /\ PassLogInOrder)
    /\ [][coveredNodes \subseteq coveredNodes']_vars

C7_Witness ==
    /\ PartitionDone
    /\ passLog[1].returned # {}
    /\ passLog[2].returned # {}
    /\ passLog[3].handed # passLog[2].returned
    /\ passLog[5].returned # {}
    /\ coveredNodes = passLog[5].handed \cup passLog[5].returned

\* the markers that reach the sorts, in the order of their emission: the
\* advisories in the order the set was ranged over, then the findings
Emitted == FilterByNamespace(createForbiddenMarkers(iterOrder) \o scanned, namespace)

\* the position of the message of marker m in the report, 0 if it has none
RenderPos(m) ==
    IF MessageLine(m) \in Range(ret.report)
    THEN CHOOSE i \in DOMAIN ret.report : ret.report[i] = MessageLine(m)
    ELSE 0

\* C8: of two markers with the same key, the same related node and the same
\* severity that both have their message in the report, the one emitted
\* first is rendered first
C8_StableOrder ==
    Reported =>
        \A a \in DOMAIN Emitted : \A b \in DOMAIN Emitted :
            (/\ a < b
             /\ Emitted[a].Key = Emitted[b].Key
             /\ Emitted[a].node = Emitted[b].node
             /\ Emitted[a].Severity = Emitted[b].Severity
             /\ RenderPos(Emitted[a]) > 0
             /\ RenderPos(Emitted[b]) > 0)
            => RenderPos(Emitted[a]) < RenderPos(Emitted[b])

\* C8 as stated: whatever the severities of the two markers
C8_Original ==
    Reported =>
        \A a \in DOMAIN Emitted : \A b \in DOMAIN Emitted :
            (/\ a < b
             /\ Emitted[a].Key = Emitted[b].Key
             /\ Emitted[a].node = Emitted[b].node
             /\ RenderPos(Emitted[a]) > 0
             /\ RenderPos(Emitted[b]) > 0)
            => RenderPos(Emitted[a]) < RenderPos(Emitted[b])

C8_Witness ==
    /\ Reported
    /\ Suggest
    /\ Len(iterOrder) = 2
    /\ Len(scanned) = 2
    /\ scanned[1].Key = scanned[2].Key
    /\ scanned[1].node = scanned[2].node
    /\ scanned[1].Severity = scanned[2].Severity
    /\ 0 < RenderPos(scanned[1])
    /\ RenderPos(scanned[1]) < RenderPos(scanned[2])
    /\ RenderPos(scanned[2]) < RenderPos(createForbiddenMarkers(iterOrder)[1])

\* C9: the report does not depend on the order in which the set of forbidden
\* kinds is ranged over: any order gives the report returned
C9_Deterministic ==
    Reported =>
        \A ord \in Orders(forbiddenResources) :
            ret.report = GroupLines(world, gEdges, groups, AllNamespaces)
                            \o MarkerLines(SortedMarkers(ord, scanned, namespace),
                                           Suggest, groups)

\* the error and warning markers of the report
ErrorMarkers == BySeverity(allMarkers, "Error")

WarningMarkers == BySeverity(allMarkers, "Warning")

\* "<n> error(s) identified, use 'oc status -v' to see details."
ErrorOnlySummary ==
    Line("identified", IF Len(ErrorMarkers) = 1 THEN "error" ELSE "errors", "",
         Len(ErrorMarkers), 0)

\* C10: with n >= 1 error markers, no warning marker and Suggest off, the
\* last line of the report is the error-only summary ("1 error" for n = 1,
\* "<n> errors" otherwise) exactly when some error marker has a suggestion;
\* when none has, it is the no-resources guidance or the generic guidance
C10_ErrorOnlySummary ==
    (Reported /\ Len(ErrorMarkers) >= 1 /\ Len(WarningMarkers) = 0 /\ ~Suggest) =>
        LET last == ret.report[Len(ret.report)] IN
        IF \E i \in DOMAIN ErrorMarkers : ErrorMarkers[i].Suggestion > 0
        THEN last = ErrorOnlySummary
        ELSE last \in {Line("Run 'oc new-app' to create an application.", "", "", 0, 0),
                       Line("View details", "", "", 0, 0)}

\* C10 as stated: for every set of error markers
C10_Original ==
    (Reported /\ Len(ErrorMarkers) >= 1 /\ Len(WarningMarkers) = 0 /\ ~Suggest) =>
        ret.report[Len(ret.report)] = ErrorOnlySummary

C10_Witness ==
    /\ Reported
    /\ ~Suggest
    /\ Len(ErrorMarkers) = 2
    /\ Len(WarningMarkers) = 0
    /\ ErrorMarkers[1].Suggestion = 0
    /\ ErrorMarkers[2].Suggestion > 0
    /\ ret.report[Len(ret.report)] = ErrorOnlySummary

-----------------------------------------------------------------------------
(* Claims about the summary.                                               *)

\* the number of error markers that have a suggestion
ErrorSuggestions == Len(SelectSeq(ErrorMarkers, LAMBDA m : m.Suggestion > 0))

\* one of the three "identified" branches of the summary applies
IdentifiedBranch ==
    ~Suggest /\ (Len(WarningMarkers) > 0
                    \/ (Len(ErrorMarkers) > 0 /\ ErrorSuggestions > 0))

NoResourcesLines ==
    <<Line("You have no services, deployment configs, or build configs.", "", "", 0, 0),
      Line("Run 'oc new-app' to create an application.", "", "", 0, 0)>>

GenericLine == Line("View details", "", "", 0, 0)

\* the last n lines of the report
ReportTail(n) == SubSeq(ret.report, Len(ret.report) - n + 1, Len(ret.report))

\* C11: when none of the three "identified" branches applies, the summary is
\* the no-resources guidance exactly when there is no service group, no
\* deployment-config pipeline and no image pipeline, whatever standalone
\* replication controllers and pods were found; otherwise it is the generic
\* guidance
C11_NoResources ==
    (Reported /\ ~IdentifiedBranch) =>
        IF Len(groups.service) = 0 /\ Len(groups.dc) = 0 /\ Len(groups.bc) = 0
        THEN ReportTail(2) = NoResourcesLines
        ELSE ReportTail(1) = <<GenericLine>> /\ NoResourcesLines[1] \notin Range(ret.report)

\* C11 as stated: the no-resources guidance exactly when no group of any of
\* the five shapes was found
C11_Original ==
    (Reported /\ ~IdentifiedBranch) =>
        IF \A k \in Range(passes) : Len(groups[k]) = 0
        THEN ReportTail(2) = NoResourcesLines
        ELSE ReportTail(1) = <<GenericLine>>

C11_Witness ==
    /\ Reported
    /\ ~IdentifiedBranch
    /\ Len(groups.rc) > 0
    /\ Len(groups.pod) > 0
    /\ Len(groups.service) = 0
    /\ ReportTail(2) = NoResourcesLines

\* the phrasing the decision table selects: the first row that matches
TableRow ==
    LET E == Len(ErrorMarkers)
        W == Len(WarningMarkers)
        row1 == ~Suggest /\ E > 0 /\ W > 0
        row2 == ~Suggest /\ E > 0 /\ ErrorSuggestions > 0
        row3 == ~Suggest /\ W > 0
        row4 == Len(groups.service) = 0 /\ Len(groups.dc) = 0 /\ Len(groups.bc) = 0
    IN CASE row1 -> 1
         [] ~row1 /\ row2 -> 2
         [] ~row1 /\ ~row2 /\ row3 -> 3
         [] ~row1 /\ ~row2 /\ ~row3 /\ row4 -> 4
         [] OTHER -> 5

\* the lines of the phrasing of one row
RowLines(r) ==
    LET E == Len(ErrorMarkers)
        W == Len(WarningMarkers)
        errors == IF E = 1 THEN "error" ELSE "errors"
        warnings == IF W = 1 THEN "warning" ELSE "warnings"
    IN CASE r = 1 -> <<Line("identified", errors, warnings, E, W)>>
         [] r = 2 -> <<Line("identified", errors, "", E, 0)>>
         [] r = 3 -> <<Line("identified", "", warnings, 0, W)>>
         [] r = 4 -> NoResourcesLines
         [] OTHER -> <<GenericLine>>

\* the lines of the report that open a summary phrasing
PhrasingLines ==
    {i \in DOMAIN ret.report :
        ret.report[i].t \in {"identified", NoResourcesLines[1].t, GenericLine.t}}

-----------------------------------------------------------------------------
(* Claims about the order of the exposed routes.                           *)

\* C13: on the route lines of a service Less is irreflexive, asymmetric and
\* transitive, and of two distinct lines exactly one is less than the other;
\* so every rearrangement of the lines sorts to the one sequence the sort
\* left, and "http://a", "https://z", "https://a" sort to "https://a",
\* "https://z", "http://a"
C13_StrictTotalOrder ==
    /\ \A i \in DOMAIN routeLines : \A j \in DOMAIN routeLines : \A k \in DOMAIN routeLines :
          LET a == routeLines[i]
              b == routeLines[j]
              c == routeLines[k]
          IN /\ ~Less(a, a)
             /\ ~(Less(a, b) /\ Less(b, a))
             /\ (Less(a, b) /\ Less(b, c)) => Less(a, c)
             /\ a # b => (Less(a, b) \/ Less(b, a))
    /\ pc = "sorted" =>
          \A e \in Rearrangements(routeLines) : IsSorted(e) => e = exposes
    /\ (pc = "sorted"
          /\ routeLines = <<HTTP \o <<"a">>, HTTPS \o <<"z">>, HTTPS \o <<"a">>>>)
       => exposes = <<HTTPS \o <<"a">>, HTTPS \o <<"z">>, HTTP \o <<"a">>>>

C13_Witness ==
    /\ pc = "sorted"
    /\ routeLines = <<HTTP \o <<"a">>, HTTPS \o <<"z">>, HTTPS \o <<"a">>>>
    /\ exposes = <<HTTPS \o <<"a">>, HTTPS \o <<"z">>, HTTP \o <<"a">>>>

\* the rank of the scheme of a route line
SchemeRank(s) == IF HasPrefix(s, HTTPS) THEN 0 ELSE IF HasPrefix(s, HTTP) THEN 1 ELSE 2

\* the length of the substring of s up to the first space
SegmentLength(s) == IF Index(s, " ") = -1 THEN Len(s) ELSE Index(s, " ")

\* the comparison of the tuples <<scheme rank, segment length, string>>
TupleLess(a, b) ==
    \/ SchemeRank(a) < SchemeRank(b)
    \/ /\ SchemeRank(a) = SchemeRank(b)
       /\ \/ SegmentLength(a) < SegmentLength(b)
          \/ SegmentLength(a) = SegmentLength(b) /\ StrLess(a, b)

\* C14: for every pair of route lines Less is the comparison of the tuples
\* <<scheme rank, length up to the first space, string>>, also when both
\* lines have neither scheme
C14_TupleComparison ==
    \A i \in DOMAIN routeLines : \A j \in DOMAIN routeLines :
        Less(routeLines[i], routeLines[j]) = TupleLess(routeLines[i], routeLines[j])

-----------------------------------------------------------------------------
(* Claims about the sections of the markers.                               *)

\* the positions of the lines of kind t in the report
LinesOfKind(t) == {i \in DOMAIN ret.report : ret.report[i].t = t}

\* C15: every error marker that passes the namespace filter has its message
\* in the report, below the one "Errors:" header, whatever Suggest is; with
\* Suggest off the report has no "Warnings:" header, no message of a warning
\* marker, no "try:" line and no line of a suggestion block
C15_SeverityPolicy ==
    Reported =>
        /\ \A i \in DOMAIN Emitted :
              Emitted[i].Severity = "Error" =>
                  /\ Cardinality(LinesOfKind("Errors:")) = 1
                  /\ \A h \in LinesOfKind("Errors:") : h < RenderPos(Emitted[i])
        /\ ~Suggest =>
              /\ LinesOfKind("Warnings:") = {}
              /\ LinesOfKind("try") = {}
              /\ LinesOfKind("block") = {}
              /\ \A i \in DOMAIN Emitted :
                    Emitted[i].Severity = "Warning" => RenderPos(Emitted[i]) = 0

C15_Witness ==
    /\ Reported
    /\ ~Suggest
    /\ \E i \in DOMAIN Emitted :
          Emitted[i].Severity = "Error" /\ Emitted[i].Suggestion > 0
              /\ RenderPos(Emitted[i]) > 0
    /\ \E i \in DOMAIN Emitted : Emitted[i].Severity = "Warning"
    /\ Len(Emitted) < Len(iterOrder) + Len(scanned)

-----------------------------------------------------------------------------
(* Claims about the port text of a service.                                *)

\* the port a one-port service displays, and its target as a string
DisplayedPort ==
    IF spec.Type = "NodePort"
    THEN IF spec.Ports[1].NodePort = 0 THEN Initializing
         ELSE Itoa(spec.Ports[1].NodePort)
    ELSE Itoa(spec.Ports[1].Port)

TargetText ==
    IF spec.Ports[1].TargetPort.Type = "Int"
    THEN Itoa(spec.Ports[1].TargetPort.IntVal)
    ELSE spec.Ports[1].TargetPort.StrVal

\* C16: for a service with one port, describeServicePorts returns
\* ":<p> -> <t>" when the target t is not "0", differs from the displayed
\* port p and the ClusterIP is not None, and ":<p>" otherwise; p is
\* "<initializing>" for a NodePort service whose node port is 0; port 80
\* with target 8080 on a service that is not headless gives ":80 -> 8080"
C16_SinglePort ==
    (pc = "ported" /\ Len(spec.Ports) = 1) =>
        /\ IF /\ TargetText # <<"0">>
              /\ TargetText # DisplayedPort
              /\ spec.ClusterIP # "None"
           THEN port = <<":">> \o DisplayedPort \o <<" ", "-", ">", " ">> \o TargetText
           ELSE port = <<":">> \o DisplayedPort
        /\ (spec.Type = "NodePort" /\ spec.Ports[1].NodePort = 0) =>
              SubSeq(port, 1, 15) = <<":", "<", "i", "n", "i", "t", "i", "a", "l", "i", "z",
                                      "i", "n", "g", ">">>
        /\ (/\ spec.Type = "ClusterIP"
            /\ spec.ClusterIP # "None"
            /\ spec.Ports[1].Port = 80
            /\ spec.Ports[1].TargetPort = FromInt(8080)) =>
              port = <<":", "8", "0", " ", "-", ">", " ", "8", "0", "8", "0">>

C16_Witness ==
    /\ pc = "ported"
    /\ Len(spec.Ports) = 1
    /\ spec.Type = "NodePort"
    /\ spec.Ports[1].NodePort = 0
    /\ port = <<":", "<", "i", "n", "i", "t", "i", "a", "l", "i", "z", "i", "n", "g", ">",
                " ", "-", ">", " ", "8", "0", "8", "0">>

-----------------------------------------------------------------------------
(* Claims about the pods and the nested lines of a service group.          *)

\* the pods of the monopod lines of the report, in the order of the lines
MonopodLines ==
    LET ls == SelectSeq(out, LAMBDA l : l.t = "pod" /\ l.k = 0)
    IN [i \in DOMAIN ls |-> ls[i].n]

\* the standalone pods that are no deployer pod, no builder pod and have not
\* finished, in the order of standalonePods
InterestingPods ==
    LET ps == SelectSeq(groups.pod, LAMBDA v :
                  /\ ~world.pod[v.primary].deployer
                  /\ ~world.pod[v.primary].builder
                  /\ world.pod[v.primary].phase \notin {"Succeeded", "Failed"})
    IN [i \in DOMAIN ps |-> ps[i].primary]

\* C17: the monopod lines are those of the standalone pods without deployer
\* label, without build annotation and with a phase other than Succeeded and
\* Failed, once each and in the order of the standalone pods; the pods left
\* out have no monopod line and are still in the covered set
C17_BoringPods ==
    pc = "markers" =>
        /\ MonopodLines = InterestingPods
        /\ \A i \in DOMAIN groups.pod :
              /\ groups.pod[i].primary \in coveredNodes
              /\ IsBoring(groups.pod[i].primary) =>
                    groups.pod[i].primary \notin Range(MonopodLines)

C17_Witness ==
    /\ pc = "markers"
    /\ Len(groups.pod) = 2
    /\ IsBoring(groups.pod[1].primary)
    /\ world.pod[groups.pod[1].primary].phase = "Failed"
    /\ MonopodLines = <<groups.pod[2].primary>>
    /\ groups.pod[1].primary \in coveredNodes

\* how many lines of kind t the report has for node n inside the group of
\* service svc
NestedLines(t, n, svc) ==
    Cardinality({i \in DOMAIN out : out[i] = Line(t, n, svc, 1, 0)})

-----------------------------------------------------------------------------
(* Claims about the namespace filter.                                      *)

\* the related node of marker m lies in another namespace than the report's
CrossNamespace(m) == namespace # "" /\ m.node # 0 /\ m.ns # namespace

\* the advisories and the findings of the scanners whose node does not
\* lie in another namespace
InNamespace == SelectSeq(createForbiddenMarkers(iterOrder) \o scanned,
                         LAMBDA m : ~CrossNamespace(m))

\* C19: the sorted and bucketed markers are the advisories and findings
\* whose related node does not lie in another namespace than the report's;
\* a marker of another namespace has no message in the report and is in no
\* total of the summary; a report over all namespaces drops no marker
C19_NamespaceFilter ==
    Reported =>
        /\ Range(allMarkers) = Range(InNamespace)
        /\ Len(allMarkers) = Len(InNamespace)
        /\ Len(ErrorMarkers) + Len(WarningMarkers) = Len(InNamespace)
        /\ \A i \in DOMAIN scanned : CrossNamespace(scanned[i]) => RenderPos(scanned[i]) = 0
        /\ \A i \in LinesOfKind("identified") :
              /\ ret.report[i].k \in
                    {0, Len(SelectSeq(InNamespace, LAMBDA m : m.Severity = "Error"))}
              /\ ret.report[i].j \in
                    {0, Len(SelectSeq(InNamespace, LAMBDA m : m.Severity = "Warning"))}
        /\ namespace = "" => Len(allMarkers) = Len(iterOrder) + Len(scanned)

C19_Witness ==
    /\ Reported
    /\ namespace = "ns1"
    /\ ~Suggest
    /\ Len(scanned) = 2
    /\ CrossNamespace(scanned[1])
    /\ scanned[1].Severity = "Error"
    /\ ~CrossNamespace(scanned[2])
    /\ scanned[2].Severity = "Error"
    /\ \E i \in LinesOfKind("identified") : ret.report[i].k = 1

-----------------------------------------------------------------------------
(* Claims about the isolation of the Load tasks.                           *)

\* the step is the Load task of loader l
LoadStepOf(l) == loadState[l] = "pending" /\ loadState'[l] = "done"

\* the step leaves alone everything but the buffer and the result of loader l
TouchesOnly(l) ==
    /\ \A k \in Loaders \ {l} :
          /\ items'[k] = items[k]
          /\ loadErr'[k] = loadErr[k]
          /\ answer'[k] = answer[k]
          /\ loadState'[k] = loadState[k]
    /\ UNCHANGED <<graphVars, classifyVars, mgErr>>

\* what the barrier leaves is fixed by the listers' answers alone
FixedByAnswers ==
    /\ \A l \in Loaders :
          items[l] = IF answer[l] = Ok THEN Listed(world, l) ELSE <<>>
    /\ forbiddenResources =
          {loadErr[l].kind : l \in {k \in Loaders : IsForbidden(loadErr[k])
                                                    /\ loadErr[k].kind # ""}}
    /\ Range(actualErrors) =
          {loadErr[l] : l \in {k \in Loaders : loadErr[k] # NoErr
                                               /\ ~IsForbidden(loadErr[k])}}

\* C20: a Load task changes only its own loader's buffer and result, and
\* neither the graph nor the forbidden kinds nor the errors; once the
\* fan-out is over, the staged items, the forbidden kinds and the set of
\* errors are fixed by the listers' answers, whatever the order of the tasks
C20_IsolatedLoads ==
    /\ [][\A l \in Loaders : LoadStepOf(l) => TouchesOnly(l)]_vars
    /\ []((pc # "fanout") => FixedByAnswers)

C20_Witness ==
    /\ pc = "add"
    /\ forbiddenResources # {}
    /\ items["rc"] # <<>>
    /\ items["pod"] # <<>>

-----------------------------------------------------------------------------
(* Claims about the completion of the fan-out.                             *)

\* MakeGraph has returned
MakeGraphReturned == pc \in {"mgReturned", "done"}

\* no step runs the Load of a loader whose Load has already returned
NoSecondLoad ==
    \A l \in Loaders :
        loadState[l] = "done" =>
            /\ loadState'[l] = "done"
            /\ answer'[l] = answer[l]
            /\ loadErr'[l] = loadErr[l]
            /\ items'[l] = items[l]

\* C21: the Load of a loader that has returned is not run again; MakeGraph
\* comes to return in every execution, those with failed tasks included,
\* and it has left the fan-out only when all ten tasks have returned, so
\* that no failure keeps another task from running to its end
C21_RunsEachOnce ==
    /\ [][NoSecondLoad]_vars
    /\ <>MakeGraphReturned
    /\ []((pc # "fanout") => AllTasksDone)

C21_Witness ==
    /\ pc = "done"
    /\ AllTasksDone
    /\ Failed(answer) # {}
    /\ \E l \in Loaders : answer[l] = Ok /\ items[l] # <<>>

-----------------------------------------------------------------------------
(* Claims about the order of the sorted markers.                           *)

\* the position at which marker m was emitted
EmitPos(m) == CHOOSE i \in DOMAIN Emitted : Emitted[i] = m

\* the advisories are emitted before every finding, and the findings
\* scanner by scanner in the order of getMarkerScanners
EmittedInScannerOrder ==
    \A i \in DOMAIN Emitted : \A j \in DOMAIN Emitted :
        i < j =>
            /\ Emitted[j].scanner = "" => Emitted[i].scanner = ""
            /\ (Emitted[i].scanner # "" /\ Emitted[j].scanner # "")
                  => ScannerIndex(Emitted[i].scanner) <= ScannerIndex(Emitted[j].scanner)

\* C22: the sorted list holds every emitted marker once; it is ordered by
\* the identity of the related node, markers about the same node by key, and
\* markers equal in both in the order of their emission, which is the
\* advisories and then the scanners in the order of getMarkerScanners; the
\* messages of one section of the report follow the order of the list
C22_SortedByNodeThenKey ==
    Reported =>
        /\ Len(allMarkers) = Len(Emitted)
        /\ Range(allMarkers) = Range(Emitted)
        /\ EmittedInScannerOrder
        /\ \A i \in DOMAIN allMarkers : \A j \in DOMAIN allMarkers :
              i < j =>
                 LET a == allMarkers[i]
                     b == allMarkers[j]
                 IN /\ a.node <= b.node
                    /\ a.node = b.node => KeyRank(a.Key) <= KeyRank(b.Key)
                    /\ (a.node = b.node /\ a.Key = b.Key) => EmitPos(a) < EmitPos(b)
                    /\ (a.Severity = b.Severity /\ RenderPos(a) > 0 /\ RenderPos(b) > 0)
                          => RenderPos(a) < RenderPos(b)

C22_Witness ==
    /\ Reported
    /\ Len(iterOrder) >= 1
    /\ Len(scanned) = 2
    /\ Len(allMarkers) = Len(iterOrder) + 2
    /\ scanned[1].node = 2
    /\ scanned[2].node = 1
    /\ allMarkers[Len(allMarkers)] = scanned[1]
    /\ KeyRank(scanned[1].Key) < KeyRank(scanned[2].Key)

-----------------------------------------------------------------------------
(* Claims about the order of the display groups in the report.             *)

\* the lines of the display groups: neither the header nor the blank lines
IsGroupLine(l) == l.t \in {"svc", "dc", "rc", "bc", "pod"}

\* the shape of the display group a line belongs to: a service line and the
\* lines nested under a service are of shape "service"
ShapeOf(l) == IF l.t = "svc" \/ l.k = 1 THEN "service" ELSE l.t

\* the place of a shape in a sequence of shapes
PlaceIn(order, s) == CHOOSE i \in DOMAIN order : order[i] = s

\* no line of a later shape of order precedes a line of an earlier one
PrintedInOrder(order) ==
    \A i \in DOMAIN out : \A j \in DOMAIN out :
        (i < j /\ IsGroupLine(out[i]) /\ IsGroupLine(out[j]))
            => PlaceIn(order, ShapeOf(out[i])) <= PlaceIn(order, ShapeOf(out[j]))

\* the order in which Describe prints the shapes
RenderOrder == <<"service", "dc", "bc", "rc", "pod">>

\* C23: the groups are printed shape by shape: all service groups, then the
\* deployment pipelines, then the build/image pipelines, then the bare
\* replication controllers, then the bare pods; the passes partition in the
\* order service, dc, rc, bc, pod, so the last but one and the one before
\* are printed in the inverse order of their passes
C23_RenderOrder ==
    pc = "markers" =>
        /\ PrintedInOrder(RenderOrder)
        /\ [i \in DOMAIN passLog |-> passLog[i].shape] = passes

\* C23 as stated: the groups are printed in the order of the passes
C23_Original == pc = "markers" => PrintedInOrder(passes)

C23_Witness ==
    /\ pc = "markers"
    /\ Len(groups.service) >= 1
    /\ Len(groups.rc) = 1
    /\ Len(groups.bc) = 1
    /\ \E i \in DOMAIN out : \E j \in DOMAIN out :
          /\ i < j
          /\ out[i] = Line("bc", groups.bc[1].primary, "", 0, 0)
          /\ out[j] = Line("rc", groups.rc[1].primary, "", 0, 0)

-----------------------------------------------------------------------------
(* Claims about the ports of a NodePort service.                           *)

\* the external port of a port of a NodePort service: the allocated node
\* port, or the placeholder while none is allocated
NodePortText(p) == IF p.NodePort = 0 THEN Initializing ELSE Itoa(p.NodePort)

\* an entry that shows the external port e alone (arrow FALSE) or mapped to
\* the target of port p
EntryText(e, p, arrow, sep) == IF arrow THEN e \o sep \o String(p.TargetPort) ELSE e

\* C24: for a NodePort service with at least one port, the text of
\* describeServicePorts is made of one entry per port, each showing the
\* node port of its port, or "<initializing>" when that is 0, alone or
\* mapped to the target; no entry shows another number instead
C24_NodePortShown ==
    (pc = "ported" /\ spec.Type = "NodePort" /\ Len(spec.Ports) >= 1) =>
        \E arrows \in [DOMAIN spec.Ports -> BOOLEAN] :
            port = IF Len(spec.Ports) = 1
                   THEN <<":">> \o EntryText(NodePortText(spec.Ports[1]), spec.Ports[1],
                                             arrows[1], <<" ", "-", ">", " ">>)
                   ELSE <<" ", "p", "o", "r", "t", "s", " ">>
                        \o Join([i \in DOMAIN spec.Ports |->
                                    EntryText(NodePortText(spec.Ports[i]), spec.Ports[i],
                                              arrows[i], <<"-", ">">>)],
                                <<",", " ">>)

-----------------------------------------------------------------------------
(* Claims about the build lines.                                           *)

\* the timestamp of the build behind a pointer, the zero time for nil
TimeOf(ptr) == IF ptr = <<>> THEN 0 ELSE buildTimestamp(ptr[1])

\* the line of build b among the lines returned
LineOf(b) == describeBuildPhase(b, <<>>, buildArgs.build, buildArgs.pushTargetResolved)

\* the later of the timestamps of the two terminal builds
LaterTerminal ==
    IF TimeOf(buildArgs.lastSuccessfulBuild) > TimeOf(buildArgs.lastUnsuccessfulBuild)
    THEN TimeOf(buildArgs.lastSuccessfulBuild)
    ELSE TimeOf(buildArgs.lastUnsuccessfulBuild)

\* C25: describeAdditionalBuildDetail returns the line of the last
\* unsuccessful build exactly when there is such a build and its timestamp
\* is strictly later than that of the last successful build (the zero time
\* if there is none), and never dereferences an absent build; the lines of
\* the active builds are together and in their order, after the lines of
\* the terminal builds when the timestamp of the first active build is
\* strictly earlier than the later terminal timestamp, before them otherwise
C25_BuildDetailOrder ==
    (pc = "built" /\ buildArgs.build # "") =>
        LET lu == buildArgs.lastUnsuccessfulBuild
            ab == buildArgs.activeBuilds
            terminal == Len(buildOut) - Len(ab)
        IN /\ Panic \notin Range(buildOut)
           /\ lu = <<>> =>
                 \A u \in (UnsuccessfulBuilds(TRUE) \cup UnsuccessfulBuilds(FALSE)) \ {<<>>} :
                     LineOf(u[1]) \notin Range(buildOut)
           /\ lu # <<>> =>
                 (LineOf(lu[1]) \in Range(buildOut)
                     <=> TimeOf(lu) > TimeOf(buildArgs.lastSuccessfulBuild))
           /\ Len(ab) >= 1 =>
                 /\ terminal >= 0
                 /\ IF buildTimestamp(ab[1]) < LaterTerminal
                    THEN \A i \in DOMAIN ab : buildOut[terminal + i] = LineOf(ab[i])
                    ELSE \A i \in DOMAIN ab : buildOut[i] = LineOf(ab[i])

C25_Witness ==
    /\ pc = "built"
    /\ buildArgs.lastSuccessfulBuild # <<>>
    /\ buildArgs.lastUnsuccessfulBuild # <<>>
    /\ Len(buildArgs.activeBuilds) = 2
    /\ TimeOf(buildArgs.lastSuccessfulBuild) = 1
    /\ TimeOf(buildArgs.lastUnsuccessfulBuild) = 2
    /\ buildTimestamp(buildArgs.activeBuilds[1]) = 2
    /\ buildTimestamp(buildArgs.activeBuilds[2]) = 1
    /\ Len(buildOut) = 4
    /\ buildOut[1] = LineOf(buildArgs.activeBuilds[1])
    /\ buildOut[4] = LineOf(buildArgs.lastUnsuccessfulBuild[1])

\* the builds handed to describeAdditionalBuildDetail
DescribedBuilds ==
    {buildArgs.lastSuccessfulBuild[i] : i \in DOMAIN buildArgs.lastSuccessfulBuild}
    \cup {buildArgs.lastUnsuccessfulBuild[i] : i \in DOMAIN buildArgs.lastUnsuccessfulBuild}
    \cup Range(buildArgs.activeBuilds)

\* line l ends with the warning
EndsWithCantPush(l) == Len(l) > 0 /\ l[Len(l)] = CantPush

\* C26: the line describeBuildPhase gives for a build, whatever its phase,
\* ends with " (can't push to image)" exactly when the push target is not
\* resolved and the build has an output target (Spec.Output.To is set)
C26_CantPushSuffix ==
    (pc = "built" /\ buildArgs.build # "") =>
        \A b \in DescribedBuilds :
            /\ EndsWithCantPush(LineOf(b)) <=> (b.To /\ ~buildArgs.pushTargetResolved)
            /\ \A i \in DOMAIN buildOut :
                  buildOut[i] = LineOf(b) =>
                     (EndsWithCantPush(buildOut[i])
                         <=> (b.To /\ ~buildArgs.pushTargetResolved))

\* C26 as stated: exactly when the push target is not resolved
C26_Original ==
    (pc = "built" /\ buildArgs.build # "") =>
        \A b \in DescribedBuilds :
            \A i \in DOMAIN buildOut :
                buildOut[i] = LineOf(b) =>
                    (EndsWithCantPush(buildOut[i]) <=> ~buildArgs.pushTargetResolved)

C26_Witness ==
    /\ pc = "built"
    /\ ~buildArgs.pushTargetResolved
    /\ Len(buildOut) = 3
    /\ Len(buildArgs.activeBuilds) = 1
    /\ \A i \in DOMAIN buildOut : EndsWithCantPush(buildOut[i])
    /\ buildArgs.lastUnsuccessfulBuild # <<>>
    /\ buildArgs.lastUnsuccessfulBuild[1].Phase = "Error"

-----------------------------------------------------------------------------
(* Claims about the deployment lines of a pipeline.                        *)

\* line l is a line of describeDeployments
IsDeploymentLine(l) ==
    Len(l) > 0 /\ l[1] \in {"deployment #", "test deployment #", "deployment #1 waiting "}

\* the lines of describeDeployments among the lines returned, in their order
DeploymentLines == SelectSeq(deployOut, IsDeploymentLine)

\* the lines one call of describeDeployments gives for the pipeline: the
\* line of a deployment waiting or pending, if any, and those of the first
\* DeploymentsShown deployments, the active one before the inactive ones
Block ==
    LET ds == deploy.ActiveDeployment \o deploy.InactiveDeployments
        n == IF Len(ds) > DeploymentsShown THEN DeploymentsShown ELSE Len(ds)
        trig == describeDeploymentConfigTriggers(deploy.Deployment)
        announced == IF deploy.ActiveDeployment # <<>> THEN <<>>
                     ELSE IF deploy.Deployment.LatestVersion = 0
                     THEN <<<<"deployment #1 waiting ", trig[1]>>>>
                     ELSE IF trig[2]
                     THEN <<<<"deployment #">> \o Itoa(deploy.Deployment.LatestVersion)
                              \o <<" pending ", trig[1]>>>>
                     ELSE <<>>
    IN announced \o [i \in 1..n |-> describeDeploymentStatus(ds[i], i = 1, deploy.Deployment.Test)]

RECURSIVE Times(_, _)
\* k copies of the sequence s, one after the other
Times(s, k) == IF k = 0 THEN <<>> ELSE s \o Times(s, k - 1)

\* C27: the deployment lines describeDeploymentInServiceGroup returns are
\* the block of describeDeployments once for every image of the pipeline:
\* once for one image, k times for k images, not at all for none; a block
\* has the status lines of at most three deployments, the active one first,
\* and before them, when no deployment is active, at most one line of a
\* deployment waiting or pending, so that it has at most four lines
C27_BlockPerImage ==
    pc = "deployed" =>
        /\ DeploymentLines = Times(Block, Len(deploy.Images))
        /\ Len(deploy.Images) = 0 => DeploymentLines = <<>>
        /\ Len(Block) <= DeploymentsShown + 1
        /\ deploy.ActiveDeployment # <<>> =>
              /\ Len(Block) <= DeploymentsShown
              /\ Block[1] = describeDeploymentStatus(deploy.ActiveDeployment[1], TRUE,
                                                     deploy.Deployment.Test)

\* C27 as stated: the lines are a block of at most three lines once for
\* every image
C27_Original ==
    pc = "deployed" =>
        /\ DeploymentLines = Times(Block, Len(deploy.Images))
        /\ Len(DeploymentLines) <= DeploymentsShown * Len(deploy.Images)

C27_Witness ==
    /\ pc = "deployed"
    /\ Len(deploy.Images) = 2
    /\ deploy.ActiveDeployment # <<>>
    /\ Len(deploy.InactiveDeployments) = 3
    /\ Len(DeploymentLines) = 6
    /\ DeploymentLines[1] = DeploymentLines[4]
    /\ DeploymentLines[1] = describeDeploymentStatus(deploy.ActiveDeployment[1], TRUE,
                                                     deploy.Deployment.Test)

-----------------------------------------------------------------------------
(* Claims about the pods of a service group and the boring-pod filter.     *)

\* pod has no edge to a fulfilling replication controller of group sg
Unmanaged(pod, sg) ==
    ~\E i \in DOMAIN sg.FulfillingRCs :
        \E e \in gEdges : e[1] = pod /\ e[2] = sg.FulfillingRCs[i]

====
